---- MODULE Spec2Model ----
(***************************************************************************)
(* Model of ND-BOT.                                                        *)
(*                                                                         *)
(* The facial-metrics engine (specification Spec):                         *)
(*   src/analyzers/lookism_metrics.py  (get_point, extractors, compute_all) *)
(*   src/analyzers/metrics.py          (extract_all_metrics: rating, tier)  *)
(*   src/core/report_logic.py          (calculate_facial_metrics)           *)
(* The functions are pure; the state machine is a sequence of calls: each  *)
(* action draws the arguments of one call from bounded sets, applies the   *)
(* function as the code computes it and records the call in op/args/ret.   *)
(*                                                                         *)
(* The bot application, each part with a specification of its own:         *)
(*   BotSpec     users table, payment webhook, chat and analysis handlers  *)
(*               (src/database.py, src/core/webhooks.py, src/main.py)      *)
(*   SplitSpec   split_long_message (src/core/utils.py)                    *)
(*   WorkerSpec  the analysis worker (src/worker.py)                       *)
(*                                                                         *)
(* Python values are tagged records [t, v, s, d]: the type, and the number,  *)
(* string or mapping it holds.  Floats are fixed-point integers whose scale *)
(* is named with every operator.                                           *)
(***************************************************************************)
EXTENDS Integers, Sequences, FiniteSets, Bags, TLC

VARIABLES op, args, ret, users, calls, tally, last, split, worker

vars == <<op, args, ret, users, calls, tally, last, split, worker>>

\* the state of the bot application (database, requests in flight, message
\* splitter, analysis worker), which the calls of the metrics engine leave alone
appvars == <<users, calls, tally, last, split, worker>>

(***************************************************************************)
(* Python values (what json.loads can produce, plus the 'N/A' marker).     *)
(***************************************************************************)
NoItems == [k \in {} |-> 0]

None == [t |-> "None", v |-> 0, s |-> "", d |-> NoItems]

Num(n) == [t |-> "num", v |-> n, s |-> "", d |-> NoItems]

Str(str) == [t |-> "str", v |-> 0, s |-> str, d |-> NoItems]

\* an opaque list of n items
List(n) == [t |-> "list", v |-> n, s |-> "", d |-> NoItems]

Dict(f) == [t |-> "dict", v |-> 0, s |-> "", d |-> f]

EmptyDict == Dict(NoItems)

NA == Str("N/A")

IsNum(x) == x.t = "num"

IsDict(x) == x.t = "dict"

IsNA(x) == x.t = "str" /\ x.s = "N/A"

\* Python truthiness: `not x`, `if x`.
Truthy(x) ==
    CASE x.t = "None" -> FALSE
      [] x.t = "num"  -> x.v # 0
      [] x.t = "str"  -> x.s # ""
      [] x.t = "list" -> x.v # 0
      [] x.t = "dict" -> DOMAIN x.d # {}
      [] OTHER -> TRUE

(***************************************************************************)
(* Outcome of evaluating an expression: a value, or a raised exception.    *)
(***************************************************************************)
Ok(x) == [exc |-> "none", val |-> x]

Raise(e) == [exc |-> e, val |-> None]

Raised(r) == r.exc # "none"

\* obj[key] for a string key: KeyError on a mapping without the key,
\* TypeError on None, numbers, strings and lists.
Subscript(obj, key) ==
    IF IsDict(obj)
    THEN IF key \in DOMAIN obj.d THEN Ok(obj.d[key]) ELSE Raise("KeyError")
    ELSE Raise("TypeError")

\* obj.get(key, default): only mappings have the method.
DictGet(obj, key, default) ==
    IF IsDict(obj)
    THEN IF key \in DOMAIN obj.d THEN Ok(obj.d[key]) ELSE Ok(default)
    ELSE Raise("AttributeError")

(***************************************************************************)
(* get_point: the landmark accessor.                                       *)
(***************************************************************************)
Sentinel == <<Num(0), Num(0)>>

\* the exception classes the accessor's except clause names
GetPointCaught == {"KeyError", "TypeError"}

\* The try body: point = landmarks[key]; (point['x'], point['y']).
GetPointBody(landmarks, key) ==
    LET Coordinates(x, y) ==
            IF Raised(x) THEN x
            ELSE IF Raised(y) THEN y ELSE Ok(<<x.val, y.val>>)
        Stored(point) ==
            IF Raised(point) THEN point
            ELSE Coordinates(Subscript(point.val, "x"), Subscript(point.val, "y"))
    IN  Stored(Subscript(landmarks, key))

get_point_KeyErrorOnly(landmarks, key) ==
    LET Handled(r) == IF Raised(r) /\ r.exc = "KeyError" THEN Ok(Sentinel) ELSE r
    IN  Handled(GetPointBody(landmarks, key))

get_point(landmarks, key) ==
    LET Handled(r) == IF Raised(r) /\ r.exc \in GetPointCaught THEN Ok(Sentinel) ELSE r
    IN  Handled(GetPointBody(landmarks, key))

IsSentinel(p) == IsNum(p[1]) /\ p[1].v = 0 /\ IsNum(p[2]) /\ p[2].v = 0

(***************************************************************************)
(* Fixed-point arithmetic.  Coordinates are whole pixels; a distance is in *)
(* tenths of a pixel, a ratio in thousandths, an angle in hundredths of a  *)
(* degree.  TLC integers are 32 bits wide: coordinates stay within 0..400. *)
(***************************************************************************)
Abs(n) == IF n < 0 THEN -n ELSE n

Max(a, b) == IF a >= b THEN a ELSE b

Min(a, b) == IF a <= b THEN a ELSE b

RECURSIVE SqrtSearch(_, _, _)
SqrtSearch(n, lo, hi) ==
    LET Halve(mid) ==
            IF mid * mid <= n THEN SqrtSearch(n, mid, hi) ELSE SqrtSearch(n, lo, mid - 1)
    IN  IF lo >= hi THEN lo ELSE Halve((lo + hi + 1) \div 2)

\* math.sqrt, rounded down to an integer (bisection on 0 .. 46340, the
\* largest root of a 32-bit integer)
ISqrt(n) == SqrtSearch(n, 0, 46340)

\* x / d cut off below, without rounding
RoundDiv_Truncate(x, d) == x \div d

\* round(x / d) to the nearest integer, ties to even (Python's round), d > 0.
\* An exact tie is a value that binary floating point does not hold exactly:
\* there the code returns one of the two neighbours
RoundDiv(x, d) ==
    LET Nearest(q, r) == IF 2 * r > d \/ (2 * r = d /\ q % 2 = 1) THEN q + 1 ELSE q
    IN  Nearest(x \div d, x % d)

NumPt(p) == IsNum(p[1]) /\ IsNum(p[2])

\* compute_distance on numeric points, in tenths of a pixel
compute_distance(p1, p2) ==
    ISqrt(100 * ((p1[1].v - p2[1].v) * (p1[1].v - p2[1].v)
               + (p1[2].v - p2[2].v) * (p1[2].v - p2[2].v)))

\* round(compute_distance(p1, p2), 1), in tenths of a pixel
RoundedDistance(p1, p2) ==
    ( ISqrt(400 * ((p1[1].v - p2[1].v) * (p1[1].v - p2[1].v)
                 + (p1[2].v - p2[2].v) * (p1[2].v - p2[2].v))) + 1 ) \div 2

\* tan(d degrees) * 10000 for d = 0..45 (index d + 1)
TanTable ==
    << 0, 175, 349, 524, 699, 875, 1051, 1228, 1405, 1584, 1763, 1944, 2126,
       2309, 2493, 2679, 2867, 3057, 3249, 3443, 3640, 3839, 4040, 4245, 4452,
       4663, 4877, 5095, 5317, 5543, 5774, 6009, 6249, 6494, 6745, 7002, 7265,
       7536, 7813, 8098, 8391, 8693, 9004, 9325, 9657, 10000 >>

\* atan(a / b) in hundredths of a degree for 0 <= a <= b, b > 0
AtanLow(a, b) ==
    LET Interpolate(d) ==
            d * 100 + ((a * 10000 - TanTable[d + 1] * b) * 100)
                          \div ((TanTable[d + 2] - TanTable[d + 1]) * b)
    IN  IF a = b THEN 4500
        ELSE Interpolate(CHOOSE e \in 0..44 :
                             /\ TanTable[e + 1] * b <= a * 10000
                             /\ TanTable[e + 2] * b > a * 10000)

\* atan(a / b) for a, b >= 0, not both 0
AtanQ1(a, b) == IF a <= b THEN AtanLow(a, b) ELSE 9000 - AtanLow(b, a)

\* math.degrees(math.atan2(dy, dx)) in hundredths of a degree, in -18000..18000
Atan2Deg(dy, dx) ==
    LET Signed(up) == IF dy < 0 THEN -up ELSE up
        Quadrant(base) == Signed(IF dx >= 0 THEN base ELSE 18000 - base)
    IN  IF dx = 0 /\ dy = 0 THEN 0 ELSE Quadrant(AtanQ1(Abs(dy), Abs(dx)))

\* scale of the cosine in compute_angle_3points
CosScale == 5000

\* the cosine without the clamp
cos_angle_Unclamped(dot_product, mag1, mag2) ==
    (dot_product * CosScale) \div ((mag1 * mag2) \div 100)

\* the cosine handed to math.acos, in units of 1/CosScale; the magnitudes
\* are in tenths of a pixel and not zero
cos_angle(dot_product, mag1, mag2) ==
    Max(-CosScale, Min(CosScale, (dot_product * CosScale) \div ((mag1 * mag2) \div 100)))

\* compute_angle_3points on numeric points, in hundredths of a degree
compute_angle_3points(p1, p2, p3) ==
    LET Acos(cosine) ==
            Atan2Deg(ISqrt(CosScale * CosScale - cosine * cosine), cosine)
        Angle(dot_product, mag1, mag2) ==
            IF mag1 = 0 \/ mag2 = 0 THEN 0
            ELSE Acos(cos_angle(dot_product, mag1, mag2))
        Vectors(v1x, v1y, v2x, v2y) ==
            Angle(v1x * v2x + v1y * v2y,
                  ISqrt(100 * (v1x * v1x + v1y * v1y)),
                  ISqrt(100 * (v2x * v2x + v2y * v2y)))
    IN  Vectors(p1[1].v - p2[1].v, p1[2].v - p2[2].v,
                p3[1].v - p2[1].v, p3[2].v - p2[2].v)

(***************************************************************************)
(* Metric extractors.  Each body runs inside try/except Exception: it      *)
(* fails when an accessor call raised or when arithmetic meets a           *)
(* coordinate that is not a number (TypeError), and the handler returns    *)
(* the extractor's fallback.                                               *)
(***************************************************************************)
\* arithmetic on both coordinates of these accessor results raises
Fails(points) ==
    \E i \in DOMAIN points : Raised(points[i]) \/ ~NumPt(points[i].val)

\* arithmetic on the x coordinates alone raises
FailsX(points) ==
    \E i \in DOMAIN points : Raised(points[i]) \/ ~IsNum(points[i].val[1])

\* an accessor call raised
AnyRaised(points) == \E i \in DOMAIN points : Raised(points[i])

\* canthal tilt in units of 0.005 degree: (left_tilt + right_tilt) / 2 with
\* the two tilts in hundredths of a degree
compute_canthal_tilt(landmarks) ==
    LET Tilt(dx, dy) == IF dx # 0 THEN Atan2Deg(dy, dx) ELSE 0
        Corners(left_outer, left_inner, right_inner, right_outer) ==
            IF Fails(<<left_outer, left_inner, right_inner, right_outer>>) THEN Num(0)
            ELSE Num(Tilt(left_outer.val[1].v - left_inner.val[1].v,
                          left_outer.val[2].v - left_inner.val[2].v)
                     + Tilt(right_inner.val[1].v - right_outer.val[1].v,
                            right_inner.val[2].v - right_outer.val[2].v))
    IN  Corners(get_point(landmarks, "left_eye_left_corner"),
                get_point(landmarks, "left_eye_right_corner"),
                get_point(landmarks, "right_eye_left_corner"),
                get_point(landmarks, "right_eye_right_corner"))

\* tenths of a pixel; fallback 60.0
compute_interpupil_distance(landmarks) ==
    LET Pupils(left_pupil, right_pupil) ==
            IF Fails(<<left_pupil, right_pupil>>) THEN Num(600)
            ELSE Num(compute_distance(left_pupil.val, right_pupil.val))
    IN  Pupils(get_point(landmarks, "left_eye_pupil"),
               get_point(landmarks, "right_eye_pupil"))

\* thousandths; fallback 0.65
compute_mid_face_ratio(landmarks) ==
    LET Ratio(mid_face_height, total_face_height) ==
            IF total_face_height > 0
            THEN Num((mid_face_height * 1000) \div total_face_height)
            ELSE Num(650)
        Points(subnasale, stomion, glabella, menton) ==
            IF Fails(<<subnasale, stomion, glabella, menton>>) THEN Num(650)
            ELSE Ratio(compute_distance(subnasale.val, stomion.val),
                       compute_distance(glabella.val, menton.val))
    IN  Points(get_point(landmarks, "nose_contour_lower_middle"),
               get_point(landmarks, "mouth_upper_lip_top"),
               get_point(landmarks, "left_eyebrow_upper_middle"),
               get_point(landmarks, "contour_chin"))

\* tenths of a degree, or 'N/A'
compute_gonial_angle(landmarks) ==
    LET Points(jaw_left, jaw_right, gonion) ==
            IF AnyRaised(<<jaw_left, jaw_right, gonion>>) THEN NA
            ELSE IF IsSentinel(jaw_left.val) \/ IsSentinel(jaw_right.val) THEN NA
            ELSE IF Fails(<<jaw_left, gonion, jaw_right>>) THEN NA
            ELSE Num(RoundDiv(compute_angle_3points(jaw_left.val, gonion.val,
                                                    jaw_right.val), 10))
    IN  Points(get_point(landmarks, "contour_left9"),
               get_point(landmarks, "contour_right9"),
               get_point(landmarks, "contour_chin"))

\* tenths of a pixel; fallback 130.0
compute_bizygomatic_width(landmarks) ==
    LET Points(zygion_left, zygion_right) ==
            IF Fails(<<zygion_left, zygion_right>>) THEN Num(1300)
            ELSE Num(compute_distance(zygion_left.val, zygion_right.val))
    IN  Points(get_point(landmarks, "contour_left7"),
               get_point(landmarks, "contour_right7"))

\* tenths of a pixel; fallback 110.0
compute_bigonial_width(landmarks) ==
    LET Points(gonion_left, gonion_right) ==
            IF Fails(<<gonion_left, gonion_right>>) THEN Num(1100)
            ELSE Num(compute_distance(gonion_left.val, gonion_right.val))
    IN  Points(get_point(landmarks, "contour_left9"),
               get_point(landmarks, "contour_right9"))

\* thousandths; fallback 0.85
compute_facial_width_height_ratio(landmarks) ==
    LET Ratio(bizygo, height) ==
            IF height > 0 THEN Num((bizygo * 1000) \div height) ELSE Num(850)
        Points(bizygo, top, bottom) ==
            IF Fails(<<top, bottom>>) THEN Num(850)
            ELSE Ratio(bizygo, compute_distance(top.val, bottom.val))
    IN  Points(compute_bizygomatic_width(landmarks).v,
               get_point(landmarks, "left_eyebrow_upper_middle"),
               get_point(landmarks, "contour_chin"))

\* the three segment lengths as measured, without the division by their total
compute_facial_thirds_Lengths(landmarks) ==
    LET Points(chin, glabella, subnasale) ==
            IF Fails(<<chin, glabella, subnasale>>) THEN <<Num(3330), Num(3330), Num(3330)>>
            ELSE << Num(compute_distance(<<chin.val[1], Num(chin.val[2].v - 200)>>,
                                         glabella.val)),
                    Num(compute_distance(glabella.val, subnasale.val)),
                    Num(compute_distance(subnasale.val, chin.val)) >>
    IN  Points(get_point(landmarks, "contour_chin"),
               get_point(landmarks, "left_eyebrow_upper_middle"),
               get_point(landmarks, "nose_contour_lower_middle"))

\* hundredths of a percent (upper, middle, lower); fallback 33.3 each
compute_facial_thirds(landmarks) ==
    LET Percent(third, total) == Num((third * 10000) \div total)
        Thirds(upper_third, middle_third, lower_third, total) ==
            IF total = 0 THEN <<Num(3330), Num(3330), Num(3330)>>
            ELSE << Percent(upper_third, total), Percent(middle_third, total),
                    Percent(lower_third, total) >>
        Heights(upper_third, middle_third, lower_third) ==
            Thirds(upper_third, middle_third, lower_third,
                   upper_third + middle_third + lower_third)
        Points(chin, glabella, subnasale) ==
            IF Fails(<<chin, glabella, subnasale>>) THEN <<Num(3330), Num(3330), Num(3330)>>
            ELSE \* trichion = (chin[0], chin[1] - 200)
                 Heights(compute_distance(<<chin.val[1], Num(chin.val[2].v - 200)>>,
                                          glabella.val),
                         compute_distance(glabella.val, subnasale.val),
                         compute_distance(subnasale.val, chin.val))
    IN  Points(get_point(landmarks, "contour_chin"),
               get_point(landmarks, "left_eyebrow_upper_middle"),
               get_point(landmarks, "nose_contour_lower_middle"))

symmetry_pairs ==
    << <<"left_eye_pupil", "right_eye_pupil">>,
       <<"left_eyebrow_upper_middle", "right_eyebrow_upper_middle">>,
       <<"mouth_left_corner", "mouth_right_corner">>,
       <<"contour_left9", "contour_right9">> >>

\* one turn of the loop over symmetry_pairs: the pair's asymmetry in
\* thousandths, and whether the pair counts (its inner try did not fail and
\* max(left_dist, right_dist) > 0)
PairAsymmetry(landmarks, pair, center_x) ==
    LET Asymmetry(left_dist, right_dist, largest) ==
            IF largest > 0
            THEN [valid |-> TRUE,
                  asymmetry |-> (Abs(left_dist - right_dist) * 1000) \div largest]
            ELSE [valid |-> FALSE, asymmetry |-> 0]
        Distances(left_dist, right_dist) ==
            Asymmetry(left_dist, right_dist, Max(left_dist, right_dist))
        Points(left_point, right_point) ==
            IF FailsX(<<left_point, right_point>>) \/ ~IsNum(center_x)
            THEN [valid |-> FALSE, asymmetry |-> 0]
            ELSE Distances(Abs(left_point.val[1].v - center_x.v),
                           Abs(right_point.val[1].v - center_x.v))
    IN  Points(get_point(landmarks, pair[1]), get_point(landmarks, pair[2]))

\* thousandths; neutral constant 0.8
compute_symmetry_score(landmarks) ==
    LET Score(total_asymmetry, valid_pairs) ==
            IF valid_pairs = 0 THEN Num(800)
            ELSE Num(Max(0, 1000 - total_asymmetry \div valid_pairs))
        Turns(turn) ==
            Score(turn[1].asymmetry + turn[2].asymmetry + turn[3].asymmetry
                      + turn[4].asymmetry,
                  Cardinality({i \in DOMAIN turn : turn[i].valid}))
        Pairs(center_x) ==
            Turns(<< PairAsymmetry(landmarks, symmetry_pairs[1], center_x),
                     PairAsymmetry(landmarks, symmetry_pairs[2], center_x),
                     PairAsymmetry(landmarks, symmetry_pairs[3], center_x),
                     PairAsymmetry(landmarks, symmetry_pairs[4], center_x) >>)
        Center(nose) == IF Raised(nose) THEN Num(800) ELSE Pairs(nose.val[1])
    IN  Center(get_point(landmarks, "nose_tip"))

\* thousandths; fallback 0.33
compute_eye_whr(landmarks) ==
    LET \* twice avg_width and avg_height, the halves cancel in the ratio
        Ratio(width2, height2) ==
            IF width2 > 0 THEN Num((height2 * 1000) \div width2) ELSE Num(330)
        Measured(lwa, lwb, lha, lhb, rwa, rwb, rha, rhb) ==
            IF Fails(<<lwa, lwb, lha, lhb, rwa, rwb, rha, rhb>>) THEN Num(330)
            ELSE Ratio(compute_distance(lwa.val, lwb.val) + compute_distance(rwa.val, rwb.val),
                       compute_distance(lha.val, lhb.val) + compute_distance(rha.val, rhb.val))
    IN  Measured(get_point(landmarks, "left_eye_left_corner"),
                 get_point(landmarks, "left_eye_right_corner"),
                 get_point(landmarks, "left_eye_upper_left_quarter"),
                 get_point(landmarks, "left_eye_lower_left_quarter"),
                 get_point(landmarks, "right_eye_left_corner"),
                 get_point(landmarks, "right_eye_right_corner"),
                 get_point(landmarks, "right_eye_upper_right_quarter"),
                 get_point(landmarks, "right_eye_lower_right_quarter"))

\* thousandths; fallback 0.12
compute_lip_fullness(landmarks) ==
    LET Ratio(lip_height, bizygo) ==
            IF bizygo > 0 THEN Num((lip_height * 1000) \div bizygo) ELSE Num(120)
        Points(upper_lip, lower_lip) ==
            IF Fails(<<upper_lip, lower_lip>>) THEN Num(120)
            ELSE Ratio(compute_distance(upper_lip.val, lower_lip.val),
                       compute_bizygomatic_width(landmarks).v)
    IN  Points(get_point(landmarks, "mouth_upper_lip_top"),
               get_point(landmarks, "mouth_lower_lip_bottom"))

\* the quotient taken for granted: 0 where the division cannot be made
compute_jaw_prominence_NoFallback(landmarks) ==
    LET Ratio(bigonial, bizygo) ==
            IF bizygo > 0 THEN Num((bigonial * 1000) \div bizygo) ELSE Num(0)
    IN  Ratio(compute_bigonial_width(landmarks).v, compute_bizygomatic_width(landmarks).v)

\* thousandths; fallback 0.85
compute_jaw_prominence(landmarks) ==
    LET Ratio(bigonial, bizygo) ==
            IF bizygo > 0 THEN Num((bigonial * 1000) \div bizygo) ELSE Num(850)
    IN  Ratio(compute_bigonial_width(landmarks).v, compute_bizygomatic_width(landmarks).v)

\* the distance taken without the test for the sentinel
SpanOrNA_NoSentinelTest(landmarks, key1, key2) ==
    LET Points(a, b) ==
            IF AnyRaised(<<a, b>>) THEN NA
            ELSE IF Fails(<<a, b>>) THEN NA
            ELSE Num(RoundedDistance(a.val, b.val))
    IN  Points(get_point(landmarks, key1), get_point(landmarks, key2))

\* distance between two landmarks in tenths of a pixel, 'N/A' when either is
\* the sentinel: the shape of compute_nose_chin_distance, compute_nose_width
\* and compute_nose_length
SpanOrNA(landmarks, key1, key2) ==
    LET Points(a, b) ==
            IF AnyRaised(<<a, b>>) THEN NA
            ELSE IF IsSentinel(a.val) \/ IsSentinel(b.val) THEN NA
            ELSE IF Fails(<<a, b>>) THEN NA
            ELSE Num(RoundedDistance(a.val, b.val))
    IN  Points(get_point(landmarks, key1), get_point(landmarks, key2))

compute_nose_chin_distance(profile_landmarks) ==
    SpanOrNA(profile_landmarks, "contour_chin", "nose_tip")

compute_nose_width(front_landmarks) ==
    SpanOrNA(front_landmarks, "nose_left", "nose_right")

compute_nose_length(front_landmarks) ==
    SpanOrNA(front_landmarks, "nose_contour_upper_middle", "nose_tip")

\* tenths of a pixel, or 'N/A'
compute_nose_projection(profile_landmarks) ==
    LET Points(nose_tip, nose_root) ==
            IF AnyRaised(<<nose_tip, nose_root>>) THEN NA
            ELSE IF IsSentinel(nose_tip.val) \/ IsSentinel(nose_root.val) THEN NA
            ELSE IF FailsX(<<nose_tip, nose_root>>) THEN NA
            ELSE Num(10 * Abs(nose_tip.val[1].v - nose_root.val[1].v))
    IN  Points(get_point(profile_landmarks, "nose_tip"),
               get_point(profile_landmarks, "nose_contour_upper_middle"))

\* tenths of a pixel, or 'N/A'
compute_chin_projection(profile_landmarks) ==
    LET Projection(chin, subnasale) ==
            IF Raised(subnasale) THEN NA
            ELSE IF IsSentinel(subnasale.val) THEN NA
            ELSE IF FailsX(<<chin, subnasale>>) THEN NA
            ELSE Num(10 * Abs(chin.val[1].v - subnasale.val[1].v))
        \* subnasale is nose_contour_lower_middle, or nose_tip when that is
        \* the sentinel
        Points(chin, first, second) ==
            IF AnyRaised(<<chin, first>>) THEN NA
            ELSE IF IsSentinel(chin.val) THEN NA
            ELSE Projection(chin, IF IsSentinel(first.val) THEN second ELSE first)
    IN  Points(get_point(profile_landmarks, "contour_chin"),
               get_point(profile_landmarks, "nose_contour_lower_middle"),
               get_point(profile_landmarks, "nose_tip"))

(***************************************************************************)
(* compute_skin_metrics.  Raw health is on 0..10, raw acne and stain on    *)
(* 0..100 (whole numbers here); normalized sub-scores and skin_score are   *)
(* in tenths.                                                              *)
(***************************************************************************)
_clamp(val) == Max(0, Min(1000, val))

\* the tuple returned when the inner try of normalize_skinstatus fails
NormalizeFallback == <<500, 500, 500>>

\* the linear maps without _clamp
normalize_skinstatus_NoClamp(health, acne, stain) ==
    IF ~IsNum(health) \/ ~IsNum(acne) \/ ~IsNum(stain) THEN NormalizeFallback
    ELSE <<health.v * 125 + 200, 1200 - 12 * acne.v, 1200 - 12 * stain.v>>

normalize_skinstatus(health, acne, stain) ==
    IF ~IsNum(health) \/ ~IsNum(acne) \/ ~IsNum(stain) THEN NormalizeFallback
    ELSE << _clamp(health.v * 125 + 200),
            _clamp(1200 - 12 * acne.v),
            _clamp(1200 - 12 * stain.v) >>

\* the record returned by the handler of the outer try
SkinFallback ==
    [k \in {"skin_score", "health", "acne", "stain"} |->
        IF k = "skin_score" THEN Num(0) ELSE NA]

\* the default of a raw skinstatus attribute that is absent
RawSkinDefault == 50

\* the default of facequality.value
FaceQualityDefault == 80

compute_skin_metrics(face_data) ==
    LET \* weighted_internal is in thousandths
        Scores(norm, weighted_internal, face_quality) ==
            [k \in {"skin_score", "health", "acne", "stain"} |->
                CASE k = "skin_score" ->
                         Num(RoundDiv(7 * weighted_internal + 3000 * face_quality.v, 1000))
                  [] k = "health" -> Num(norm[1])
                  [] k = "acne" -> Num(norm[2])
                  [] k = "stain" -> Num(norm[3])]
        Composite(norm, face_quality) ==
            IF ~IsNum(face_quality) THEN SkinFallback
            ELSE Scores(norm, 45 * norm[1] + 40 * norm[2] + 15 * norm[3], face_quality)
        Raw(face_quality, raw_health, raw_acne, raw_stain) ==
            IF AnyRaised(<<face_quality, raw_health, raw_acne, raw_stain>>)
            THEN SkinFallback
            ELSE Composite(normalize_skinstatus(raw_health.val, raw_acne.val, raw_stain.val),
                           face_quality.val)
        Status(skin_status, facequality) ==
            IF AnyRaised(<<skin_status, facequality>>) THEN SkinFallback
            ELSE Raw(DictGet(facequality.val, "value", Num(FaceQualityDefault)),
                     DictGet(skin_status.val, "health", Num(RawSkinDefault)),
                     DictGet(skin_status.val, "acne", Num(RawSkinDefault)),
                     DictGet(skin_status.val, "stain", Num(RawSkinDefault)))
        Attributes(attributes) ==
            IF Raised(attributes) THEN SkinFallback
            ELSE Status(DictGet(attributes.val, "skinstatus", EmptyDict),
                        DictGet(attributes.val, "facequality", EmptyDict))
    IN  Attributes(DictGet(face_data, "attributes", EmptyDict))

(***************************************************************************)
(* compute_all: the aggregator.                                            *)
(***************************************************************************)
\* a dict display {k1: v1, k2: v2, ...}: a key written twice keeps the value
\* written last
DictLiteral(pairs) ==
    [k \in {pairs[i][1] : i \in DOMAIN pairs} |->
        pairs[CHOOSE i \in DOMAIN pairs :
                  /\ pairs[i][1] = k
                  /\ \A j \in DOMAIN pairs : pairs[j][1] = k => j <= i][2]]

\* d.update(e)
DictUpdate(d, e) ==
    [k \in DOMAIN d \cup DOMAIN e |-> IF k \in DOMAIN e THEN e[k] ELSE d[k]]

\* key in obj / key not in obj
Contains(obj, key) ==
    CASE obj.t = "dict" -> Ok(key \in DOMAIN obj.d)
      [] obj.t = "list" -> Ok(FALSE)
      [] obj.t = "str"  -> Ok(obj.s = key)
      [] OTHER -> Raise("TypeError")

\* the first exception raised by a sequence of evaluations, "none" if none
FirstRaised(steps) ==
    IF AnyRaised(steps)
    THEN steps[CHOOSE i \in DOMAIN steps :
                   Raised(steps[i]) /\ \A j \in DOMAIN steps : Raised(steps[j]) => i <= j].exc
    ELSE "none"

\* `extractor(profile_landmarks) if profile_landmarks else 'N/A'`
IfProfile(profile_landmarks, value) == IF Truthy(profile_landmarks) THEN value ELSE NA

\* male + female, then / 2, in tenths: TypeError unless both are numbers
BeautyAvg(male, female) ==
    IF IsNum(male) /\ IsNum(female) THEN Ok(Num((male.v + female.v) * 5))
    ELSE Raise("TypeError")

ProfileLandmarks_NoGuard(profile_data) == DictGet(profile_data, "landmark", None)

\* `profile_data.get('landmark') if profile_data else {}`
ProfileLandmarks(profile_data) ==
    IF Truthy(profile_data) THEN DictGet(profile_data, "landmark", None)
    ELSE Ok(EmptyDict)

compute_all(front_data, profile_data) ==
    LET Thirds(thirds) ==
            Dict([k \in {"upper", "middle", "lower"} |->
                     CASE k = "upper" -> thirds[1]
                       [] k = "middle" -> thirds[2]
                       [] k = "lower" -> thirds[3]])
        AllMetrics(front_landmarks, profile_landmarks, age, gender, male, female, avg) ==
            DictLiteral(<<
                <<"canthal_tilt", compute_canthal_tilt(front_landmarks)>>,
                <<"interpupil_distance", compute_interpupil_distance(front_landmarks)>>,
                <<"mid_face_ratio", compute_mid_face_ratio(front_landmarks)>>,
                <<"gonial_angle",
                  IfProfile(profile_landmarks, compute_gonial_angle(profile_landmarks))>>,
                <<"chin_projection",
                  IfProfile(profile_landmarks, compute_chin_projection(profile_landmarks))>>,
                <<"nose_chin_distance",
                  IfProfile(profile_landmarks, compute_nose_chin_distance(profile_landmarks))>>,
                <<"nose_projection",
                  IfProfile(profile_landmarks, compute_nose_projection(profile_landmarks))>>,
                <<"bizygomatic_width", compute_bizygomatic_width(front_landmarks)>>,
                <<"bigonial_width", compute_bigonial_width(front_landmarks)>>,
                <<"facial_width_height_ratio",
                  compute_facial_width_height_ratio(front_landmarks)>>,
                <<"facial_thirds", Thirds(compute_facial_thirds(front_landmarks))>>,
                <<"age", age>>,
                <<"gender", gender>>,
                <<"symmetry_score", compute_symmetry_score(front_landmarks)>>,
                <<"eye_whr", compute_eye_whr(front_landmarks)>>,
                <<"lip_fullness", compute_lip_fullness(front_landmarks)>>,
                <<"jaw_prominence", compute_jaw_prominence(front_landmarks)>>,
                <<"nose_width", compute_nose_width(front_landmarks)>>,
                <<"nose_length", compute_nose_length(front_landmarks)>>,
                <<"chin_projection", NA>>,
                <<"beauty_male", male>>,
                <<"beauty_female", female>>,
                <<"beauty_avg", avg>> >>)
        \* the statements in the order they run; the first exception raised
        \* leaves the function
        Record(fl, pl, at, be, age_rec, age, gender_rec, gender, male, female, avg, raised) ==
            IF raised # "none" THEN Raise(raised)
            ELSE Ok(Dict(DictUpdate(
                     AllMetrics(fl.val, pl.val, age.val, gender.val, male.val, female.val,
                                avg.val),
                     compute_skin_metrics(front_data))))
        Scores(fl, pl, at, be, age_rec, age, gender_rec, gender, male, female) ==
            Record(fl, pl, at, be, age_rec, age, gender_rec, gender, male, female,
                   BeautyAvg(male.val, female.val),
                   FirstRaised(<<fl, pl, at, be, age_rec, age, gender_rec, gender,
                                 male, female, BeautyAvg(male.val, female.val)>>))
        Values(fl, pl, at, be, age_rec, gender_rec) ==
            Scores(fl, pl, at, be,
                   age_rec, DictGet(age_rec.val, "value", NA),
                   gender_rec, DictGet(gender_rec.val, "value", NA),
                   DictGet(be.val, "male_score", Num(50)),
                   DictGet(be.val, "female_score", Num(50)))
        Beauty(fl, pl, at, be) ==
            Values(fl, pl, at, be,
                   DictGet(at.val, "age", EmptyDict), DictGet(at.val, "gender", EmptyDict))
        Attributes(fl, pl, at) == Beauty(fl, pl, at, DictGet(at.val, "beauty", EmptyDict))
        Guarded(has) ==
            IF Raised(has) THEN Raise(has.exc)
            ELSE IF ~has.val THEN Ok(EmptyDict)
            ELSE Attributes(DictGet(front_data, "landmark", EmptyDict),
                            ProfileLandmarks(profile_data),
                            DictGet(front_data, "attributes", EmptyDict))
    IN  IF ~Truthy(front_data) THEN Ok(EmptyDict)
        ELSE Guarded(Contains(front_data, "landmark"))

(***************************************************************************)
(* The rating stage of extract_all_metrics: composite rating and tier of   *)
(* the metrics gathered so far.  In `metrics`, beauty_avg is in tenths,    *)
(* canthal_tilt in hundredths of a degree, gonial_angle in tenths of a     *)
(* degree, symmetry_score and midface_ratio in thousandths.  Sub-scores    *)
(* are in thousandths of a rating point, composite_rating in 1/100000.     *)
(***************************************************************************)
\* the weights of the composite, in hundredths
WeightBeauty == 40

WeightCanthal == 25

WeightGonial == 20

WeightSymmetry == 10

WeightMidface == 5

\* max(0, min(10, x)) on thousandths
ClampScore(x) == Max(0, Min(10000, x))

\* metrics.get(key, default) on the metrics mapping
MetricsGet(metrics, key, default) ==
    IF key \in DOMAIN metrics THEN metrics[key] ELSE Num(default)

beauty_score_Inverted(metrics) == (1000 - MetricsGet(metrics, "beauty_avg", 500).v) * 10

\* metrics.get("beauty_avg", 50) / 10
beauty_score(metrics) == MetricsGet(metrics, "beauty_avg", 500).v * 10

canthal_score_NoClamp(metrics) == 5000 + MetricsGet(metrics, "canthal_tilt", 0).v * 5

\* max(0, min(10, 5 + canthal_tilt / 2))
canthal_score(metrics) ==
    ClampScore(5000 + MetricsGet(metrics, "canthal_tilt", 0).v * 5)

\* the fall-off on one side only
gonial_score_NoAbs(metrics) ==
    ClampScore(10000 - (MetricsGet(metrics, "gonial_angle", 1200).v - 1200) * 10)

\* max(0, min(10, 10 - abs(gonial_angle - 120) / 10))
gonial_score(metrics) ==
    ClampScore(10000 - Abs(MetricsGet(metrics, "gonial_angle", 1200).v - 1200) * 10)

\* symmetry_score * 10
symmetry_score(metrics) == MetricsGet(metrics, "symmetry_score", 800).v * 10

\* max(0, min(10, 10 - abs(midface_ratio - 0.5) * 20))
midface_score(metrics) ==
    ClampScore(10000 - Abs(MetricsGet(metrics, "midface_ratio", 500).v - 500) * 20)

composite(metrics) ==
    beauty_score(metrics) * WeightBeauty
    + canthal_score(metrics) * WeightCanthal
    + gonial_score(metrics) * WeightGonial
    + symmetry_score(metrics) * WeightSymmetry
    + midface_score(metrics) * WeightMidface

category_StrictFirst(rating) ==
    IF rating < 300000 THEN "Sub-5"
    ELSE IF rating <= 450000 THEN "LTN"
    ELSE IF rating <= 600000 THEN "HTN"
    ELSE IF rating <= 750000 THEN "Chad-Lite"
    ELSE IF rating <= 850000 THEN "PSL-God-Candidate"
    ELSE "PSL-God"

\* the if / elif chain on composite
category(rating) ==
    IF rating <= 300000 THEN "Sub-5"
    ELSE IF rating <= 450000 THEN "LTN"
    ELSE IF rating <= 600000 THEN "HTN"
    ELSE IF rating <= 750000 THEN "Chad-Lite"
    ELSE IF rating <= 850000 THEN "PSL-God-Candidate"
    ELSE "PSL-God"

\* lines 330-364 on the metrics gathered so far
RatingStage(metrics) ==
    DictUpdate(metrics,
        [ base_rating |-> Num(beauty_score(metrics)),
          composite_rating |-> Num(composite(metrics)),
          category |-> Str(category(composite(metrics))) ])

\* a default record whose category is not the tier of its rating
DefaultMetrics_WrongTier ==
    [ beauty_avg |-> Num(500), base_rating |-> Num(5000),
      composite_rating |-> Num(500000), category |-> Str("LTN"),
      canthal_tilt |-> Num(0), gonial_angle |-> Num(1200),
      symmetry_score |-> Num(800) ]

\* the record returned after an exception
DefaultMetrics ==
    [ beauty_avg |-> Num(500), base_rating |-> Num(5000),
      composite_rating |-> Num(500000), category |-> Str("HTN"),
      canthal_tilt |-> Num(0), gonial_angle |-> Num(1200),
      symmetry_score |-> Num(800) ]

\* beauty.get("male_score", 50) and beauty.get("female_score", 50)
BeautyScores(beauty) ==
    [ beauty_male |-> MetricsGet(beauty.d, "male_score", 500),
      beauty_female |-> MetricsGet(beauty.d, "female_score", 500) ]

\* the beauty block: nothing when the face has no beauty attribute; the sum
\* of two scores raises TypeError when one of them is not a number
BeautyMetrics(beauty) ==
    IF ~IsDict(beauty) THEN Ok(NoItems)
    ELSE LET scores == BeautyScores(beauty) IN
         IF ~IsNum(scores.beauty_male) \/ ~IsNum(scores.beauty_female)
         THEN Raise("TypeError")
         ELSE Ok(DictUpdate(scores,
                 [beauty_avg |-> Num((scores.beauty_male.v + scores.beauty_female.v) \div 2)]))

\* extract_all_metrics on the beauty attribute of the first face and on the
\* geometric metrics of the landmarks, which are present together or not at
\* all; any exception is caught and replaced by the default record
extract_all_metrics(beauty, geometric) ==
    LET scored == BeautyMetrics(beauty) IN
    IF Raised(scored) THEN DefaultMetrics
    ELSE RatingStage(IF IsDict(geometric) THEN DictUpdate(scored.val, geometric.d)
                     ELSE scored.val)

(***************************************************************************)
(* Inputs of the accessor calls.                                           *)
(***************************************************************************)
MaxCoord == 1

Pt(x, y) == Dict([k \in {"x", "y"} |-> IF k = "x" THEN Num(x) ELSE Num(y)])

MalformedEntries ==
    { None, Num(5), Str("12,30"), List(2), EmptyDict,
      Dict([k \in {"x"} |-> Num(3)]), Dict([k \in {"y"} |-> Num(4)]) }

SmallEntries == {Pt(x, y) : x \in 0..MaxCoord, y \in 0..MaxCoord} \cup MalformedEntries

AccessorKeys == {"nose_tip", "contour_chin"}

SmallLandmarkSets ==
    UNION { { Dict(f) : f \in [S -> SmallEntries] } : S \in SUBSET AccessorKeys }

NonMappings == {None, List(0), List(3), Str("landmark"), Num(7)}

(***************************************************************************)
(* Inputs of the aggregator calls: a well-formed face as the provider      *)
(* returns it, and the departures from it (missing landmark groups,        *)
(* malformed entries, missing or malformed attributes).                    *)
(***************************************************************************)
Without(dict, keys) == Dict([k \in DOMAIN dict.d \ keys |-> dict.d[k]])

With(dict, key, val) ==
    Dict([k \in DOMAIN dict.d \cup {key} |-> IF k = key THEN val ELSE dict.d[k]])

FrontPoints ==
    [ left_eye_left_corner |-> <<120, 160>>,
      left_eye_right_corner |-> <<160, 164>>,
      right_eye_left_corner |-> <<240, 164>>,
      right_eye_right_corner |-> <<280, 161>>,
      left_eye_pupil |-> <<140, 162>>,
      right_eye_pupil |-> <<262, 162>>,
      left_eye_upper_left_quarter |-> <<132, 156>>,
      left_eye_lower_left_quarter |-> <<132, 168>>,
      right_eye_upper_right_quarter |-> <<268, 156>>,
      right_eye_lower_right_quarter |-> <<268, 167>>,
      left_eyebrow_upper_middle |-> <<140, 140>>,
      right_eyebrow_upper_middle |-> <<258, 141>>,
      nose_contour_upper_middle |-> <<200, 165>>,
      nose_tip |-> <<200, 220>>,
      nose_left |-> <<180, 225>>,
      nose_right |-> <<221, 225>>,
      nose_contour_lower_middle |-> <<200, 235>>,
      mouth_upper_lip_top |-> <<200, 255>>,
      mouth_lower_lip_bottom |-> <<200, 280>>,
      mouth_left_corner |-> <<170, 268>>,
      mouth_right_corner |-> <<232, 268>>,
      contour_chin |-> <<200, 330>>,
      contour_left9 |-> <<130, 300>>,
      contour_right9 |-> <<272, 300>>,
      contour_left7 |-> <<100, 200>>,
      contour_right7 |-> <<300, 202>> ]

ProfilePoints ==
    [ contour_chin |-> <<150, 330>>,
      nose_tip |-> <<90, 220>>,
      nose_contour_upper_middle |-> <<120, 165>>,
      nose_contour_lower_middle |-> <<115, 235>>,
      contour_left9 |-> <<230, 250>>,
      contour_right9 |-> <<100, 290>> ]

Landmarks(points) == Dict([k \in DOMAIN points |-> Pt(points[k][1], points[k][2])])

BaseFront == Landmarks(FrontPoints)

BaseProfile == Landmarks(ProfilePoints)

\* the landmark keys each front-view numeric metric reads
MetricKeys ==
    [ interpupil_distance |-> {"left_eye_pupil", "right_eye_pupil"},
      bizygomatic_width |-> {"contour_left7", "contour_right7"},
      bigonial_width |-> {"contour_left9", "contour_right9"},
      mid_face_ratio |-> {"nose_contour_lower_middle", "mouth_upper_lip_top",
                          "left_eyebrow_upper_middle", "contour_chin"},
      facial_width_height_ratio |-> {"contour_left7", "contour_right7",
                                     "left_eyebrow_upper_middle", "contour_chin"},
      eye_whr |-> {"left_eye_left_corner", "left_eye_right_corner",
                   "left_eye_upper_left_quarter", "left_eye_lower_left_quarter",
                   "right_eye_left_corner", "right_eye_right_corner",
                   "right_eye_upper_right_quarter", "right_eye_lower_right_quarter"},
      lip_fullness |-> {"mouth_upper_lip_top", "mouth_lower_lip_bottom",
                        "contour_left7", "contour_right7"},
      jaw_prominence |-> {"contour_left9", "contour_right9",
                          "contour_left7", "contour_right7"} ]

\* how many metrics lose their landmarks at once
MaxMissing == 1

MissingGroups ==
    { UNION {MetricKeys[m] : m \in ms} :
        ms \in {x \in SUBSET DOMAIN MetricKeys : Cardinality(x) <= MaxMissing} }

BadCoordEntries ==
    { None, Num(5), Dict([k \in {"x"} |-> Num(3)]),
      Dict([k \in {"x", "y"} |-> IF k = "x" THEN Str("120") ELSE Num(160)]),
      Dict([k \in {"x", "y"} |-> IF k = "x" THEN Num(120) ELSE None]) }

FrontLandmarkSets ==
    {Without(BaseFront, g) : g \in MissingGroups}
    \cup {With(BaseFront, k, e) : k \in DOMAIN FrontPoints, e \in BadCoordEntries}
    \cup {EmptyDict, None, List(3)}

ProfileLandmarkSets ==
    {Without(BaseProfile, g) :
        g \in { {}, {"contour_chin"}, {"nose_contour_lower_middle"},
                {"nose_contour_lower_middle", "nose_tip"},
                {"contour_left9", "contour_right9"}, {"nose_contour_upper_middle"} }}
    \cup {With(BaseProfile, k, e) : k \in {"contour_chin", "nose_tip"}, e \in BadCoordEntries}
    \cup {EmptyDict, None}

BaseAttributes ==
    Dict([ beauty |-> Dict([male_score |-> Num(72), female_score |-> Num(75)]),
           age |-> Dict([value |-> Num(27)]),
           gender |-> Dict([value |-> Str("Male")]),
           skinstatus |-> Dict([health |-> Num(6), acne |-> Num(10), stain |-> Num(20)]),
           facequality |-> Dict([value |-> Num(90)]) ])

AttributeVariants ==
    [ beauty |-> { None, EmptyDict, Dict([male_score |-> Num(72)]),
                   Dict([male_score |-> None, female_score |-> Num(75)]),
                   Dict([male_score |-> Num(72), female_score |-> Str("75")]) },
      age |-> { None, Num(27), EmptyDict },
      gender |-> { None, Str("Male"), EmptyDict },
      skinstatus |-> { None, EmptyDict,
                       Dict([acne |-> Num(10), stain |-> Num(20)]),
                       Dict([health |-> None, acne |-> Num(10), stain |-> Num(20)]) },
      facequality |-> { None, EmptyDict, Dict([value |-> None]) } ]

\* the values of front_data['attributes']
AttributeBundles ==
    {BaseAttributes, EmptyDict, None, List(2)}
    \cup {Without(BaseAttributes, {k}) : k \in DOMAIN AttributeVariants}
    \cup UNION { {With(BaseAttributes, k, w) : w \in AttributeVariants[k]} :
                   k \in DOMAIN AttributeVariants }

\* front_data: no data, no 'landmark' key, or landmarks with or without attributes
FrontData(landmarks, attributes) ==
    Dict([k \in {"landmark", "attributes"} |->
             IF k = "landmark" THEN landmarks ELSE attributes])

FrontInputs(landmarkSets, bundles) ==
    {FrontData(l, a) : l \in landmarkSets, a \in bundles}
    \cup {Dict([k \in {"landmark"} |-> l]) : l \in landmarkSets}

NoFrontInputs == {None, EmptyDict, Dict([k \in {"attributes"} |-> BaseAttributes])}

\* profile_data: absent, or landmarks of the profile view
ProfileInputs(landmarkSets) ==
    {None, EmptyDict, Dict([k \in {"attributes"} |-> BaseAttributes])}
    \cup {Dict([k \in {"landmark"} |-> l]) : l \in landmarkSets}

\* the calls: every front landmark set with the well-formed attributes, and
\* every attribute bundle with the well-formed front landmarks, each with
\* every profile
ComputeAllCalls ==
    ( ( FrontInputs(FrontLandmarkSets, {BaseAttributes})
        \cup FrontInputs({BaseFront}, AttributeBundles)
        \cup NoFrontInputs )
      \X ProfileInputs(ProfileLandmarkSets) )

(***************************************************************************)
(* calculate_facial_metrics (src/core/report_logic.py): the metrics of the *)
(* bot's report.  Its accessor returns the origin for a missing point.     *)
(* Distances and ratios are in tenths (the function rounds every float to  *)
(* one decimal), angles in tenths of a degree.                             *)
(***************************************************************************)
\* report_logic.get_point: `landmarks.get(point_name, {'x': 0, 'y': 0})`
report_get_point(landmarks, point_name) ==
    LET Coordinates(point) == <<point.d["x"], point.d["y"]>>
    IN  Coordinates(DictGet(landmarks, point_name, Pt(0, 0)).val)

\* calculate_distance of two named points, in tenths of a pixel
calculate_distance(landmarks, name1, name2) ==
    compute_distance(report_get_point(landmarks, name1),
                     report_get_point(landmarks, name2))

\* calculate_angle of two named points: atan2(-(y2 - y1), x2 - x1), in
\* hundredths of a degree
calculate_angle(landmarks, name1, name2) ==
    LET Tilt(p1, p2) == Atan2Deg(-(p2[2].v - p1[2].v), p2[1].v - p1[1].v)
    IN  Tilt(report_get_point(landmarks, name1), report_get_point(landmarks, name2))

\* twice eye_height and twice eye_width (the halves cancel in the ratio)
EyeHeight2(landmarks) ==
    calculate_distance(landmarks, "left_eye_top", "left_eye_bottom")
        + calculate_distance(landmarks, "right_eye_top", "right_eye_bottom")

EyeWidth2(landmarks) ==
    calculate_distance(landmarks, "left_eye_inner_corner", "left_eye_outer_corner")
        + calculate_distance(landmarks, "right_eye_inner_corner", "right_eye_outer_corner")

FaceHeight(landmarks) == calculate_distance(landmarks, "nose_bridge1", "contour_chin")

\* attributes.get(group, {}).get(key, default) of whole numbers
Attribute(attributes, group, key, default) ==
    DictGet(DictGet(attributes, group, EmptyDict).val, key, Num(default)).val.v

\* the metrics that are always present
MeasuredMetrics(landmarks, front_attributes, headpose) ==
    [ bizygo |-> Num(calculate_distance(landmarks, "contour_left_2", "contour_right_2")),
      bigonial |-> Num(calculate_distance(landmarks, "contour_left_6", "contour_right_6")),
      canthal_tilt |->
          Num(RoundDiv(calculate_angle(landmarks, "left_eye_inner_corner",
                                       "left_eye_outer_corner")
                         + calculate_angle(landmarks, "right_eye_inner_corner",
                                           "right_eye_outer_corner"), 20)),
      interpupil |-> Num(calculate_distance(landmarks, "left_eye_pupil_center",
                                            "right_eye_pupil_center")),
      mouth_width |-> Num(calculate_distance(landmarks, "mouth_left_corner",
                                             "mouth_right_corner")),
      lip_height |-> Num(calculate_distance(landmarks, "upper_lip_top",
                                            "lower_lip_bottom")),
      philtrum |-> Num(calculate_distance(landmarks, "nose_contour_lower_middle",
                                          "upper_lip_top")),
      gonial_angle |-> Num(1200 - 5 * DictGet(headpose, "pitch_angle", Num(0)).val.v),
      mand_plane |-> Num(250 + 10 * DictGet(headpose, "roll_angle", Num(0)).val.v),
      chin_proj |-> Num(50 + 10 * DictGet(headpose, "roll_angle", Num(0)).val.v),
      nasofrontal |-> Num(1350 + 10 * DictGet(headpose, "pitch_angle", Num(0)).val.v),
      nasolabial |-> Num(950 + 10 * DictGet(headpose, "pitch_angle", Num(0)).val.v),
      skin_score |-> Num(10 * Attribute(front_attributes, "skinstatus", "health", 0)),
      acne_idx |-> Num(10 * Attribute(front_attributes, "skinstatus", "acne", 0)),
      stain_idx |-> Num(10 * Attribute(front_attributes, "skinstatus", "stain", 0)),
      beauty_score |->
          Num(10 * Attribute(front_attributes, "beauty",
                  IF DictGet(DictGet(front_attributes, "gender", EmptyDict).val,
                             "value", Str("Male")).val = Str("Male")
                  THEN "male_score" ELSE "female_score", 0)) ]

\* `if face_height > 0: metrics['fwh_ratio'] = metrics['bizygo'] / face_height`
FwhRatio(landmarks) ==
    IF FaceHeight(landmarks) > 0
    THEN [fwh_ratio |->
             Num(RoundDiv(10 * calculate_distance(landmarks, "contour_left_2",
                                                  "contour_right_2"),
                          FaceHeight(landmarks)))]
    ELSE NoItems

\* `if eye_width > 0: metrics['eye_whr'] = eye_width / eye_height`: the test
\* is on the width, the divisor is the height
calculate_facial_metrics(front_data, profile_data) ==
    LET front_landmarks == DictGet(front_data, "landmark", EmptyDict).val
        front_attributes == DictGet(front_data, "attributes", EmptyDict).val
        profile_attributes == DictGet(profile_data, "attributes", EmptyDict).val
        Headpose(attributes) ==
            DictGet(profile_attributes, "headpose",
                    DictGet(attributes, "headpose", EmptyDict).val).val
        Metrics(landmarks, attributes) ==
            DictUpdate(MeasuredMetrics(landmarks, attributes, Headpose(attributes)),
                       FwhRatio(landmarks))
        Eyes(landmarks, attributes) ==
            IF EyeWidth2(landmarks) > 0
            THEN IF EyeHeight2(landmarks) = 0
                 THEN Raise("ZeroDivisionError")
                 ELSE Ok(Dict(DictUpdate(Metrics(landmarks, attributes),
                         [eye_whr |-> Num(RoundDiv(10 * EyeWidth2(landmarks),
                                                   EyeHeight2(landmarks)))])))
            ELSE Ok(Dict(Metrics(landmarks, attributes)))
    IN  IF ~Truthy(front_landmarks)
        THEN Ok(Dict([error |-> Str("Front landmark data is missing.")]))
        ELSE Eyes(front_landmarks, front_attributes)

\* the landmarks of the report: the face of a frontal photo
ReportFace ==
    [ contour_left_2 |-> <<100, 170>>, contour_right_2 |-> <<300, 170>>,
      contour_left_6 |-> <<130, 260>>, contour_right_6 |-> <<270, 260>>,
      nose_bridge1 |-> <<200, 160>>, contour_chin |-> <<200, 330>>,
      left_eye_inner_corner |-> <<175, 165>>, left_eye_outer_corner |-> <<135, 162>>,
      right_eye_inner_corner |-> <<225, 165>>, right_eye_outer_corner |-> <<265, 162>>,
      left_eye_pupil_center |-> <<155, 164>>, right_eye_pupil_center |-> <<245, 164>>,
      left_eye_top |-> <<155, 158>>, left_eye_bottom |-> <<155, 170>>,
      right_eye_top |-> <<245, 158>>, right_eye_bottom |-> <<245, 170>>,
      mouth_left_corner |-> <<170, 280>>, mouth_right_corner |-> <<230, 280>>,
      upper_lip_top |-> <<200, 270>>, lower_lip_bottom |-> <<200, 292>>,
      nose_contour_lower_middle |-> <<200, 250>> ]

\* the points a detector may leave out, or report at one place
Optional ==
    { "left_eye_top", "left_eye_bottom", "right_eye_top", "right_eye_bottom",
      "left_eye_outer_corner", "right_eye_outer_corner", "nose_bridge1",
      "contour_chin" }

ReportLandmarkSets ==
    { Landmarks([k \in DOMAIN ReportFace \ missing |->
                    IF k \in merged THEN <<200, 200>> ELSE ReportFace[k]]) :
        missing \in SUBSET Optional,
        merged \in {{}, {"left_eye_top", "left_eye_bottom",
                         "right_eye_top", "right_eye_bottom"}} }
      \cup {EmptyDict}

ReportAttributes ==
    { EmptyDict,
      Dict([ headpose |-> Dict([pitch_angle |-> Num(4), roll_angle |-> Num(-2)]),
             skinstatus |-> Dict([health |-> Num(80), acne |-> Num(5),
                                  stain |-> Num(10)]),
             beauty |-> Dict([male_score |-> Num(70), female_score |-> Num(75)]),
             gender |-> Dict([value |-> Str("Female")]) ]) }

\* no call of the metrics engine in progress
EngineIdle ==
    /\ op = "init"
    /\ args = <<>>
    /\ ret = Ok(None)

\* the bot application at rest: empty database, no request in flight
BotIdle ==
    /\ users = NoItems
    /\ calls = EmptyBag
    /\ tally = NoItems
    /\ last = NoItems

Init ==
    /\ EngineIdle
    /\ BotIdle
    /\ split = NoItems
    /\ worker = NoItems

\* a call is made when no call is in progress
Idle == op = "init"

Return ==
    /\ ~Idle
    /\ op = "runs" => \A i \in DOMAIN ret : ret[i].pc = "done"
    /\ op' = "init"
    /\ args' = <<>>
    /\ ret' = Ok(None)
    /\ UNCHANGED appvars

CallGetPoint ==
    /\ Idle
    /\ \E landmarks \in SmallLandmarkSets \cup NonMappings,
       key \in AccessorKeys \cup {"nose_left"} :
        /\ op' = "get_point"
        /\ args' = [landmarks |-> landmarks, key |-> key]
        /\ ret' = get_point(landmarks, key)
    /\ UNCHANGED appvars

CallComputeAll ==
    /\ Idle
    /\ \E call \in ComputeAllCalls :
        /\ op' = "compute_all"
        /\ args' = [front_data |-> call[1], profile_data |-> call[2]]
        /\ ret' = compute_all(call[1], call[2])
    /\ UNCHANGED appvars

(***************************************************************************)
(* Inputs of the canthal-tilt calls: the inner canthi stay where the face  *)
(* has them, each outer canthus lies 20 * w pixels to the side (w = 0: the *)
(* corners share their x) and 5 * r pixels below (r < 0: above).           *)
(***************************************************************************)
MaxEyeWidth == 2

MaxRise == 2

EyeLandmarks(lw, lr, rw, rr) ==
    Landmarks([ left_eye_right_corner |-> <<160, 164>>,
                left_eye_left_corner |-> <<160 - 20 * lw, 164 + 5 * lr>>,
                right_eye_left_corner |-> <<240, 164>>,
                right_eye_right_corner |-> <<240 + 20 * rw, 164 + 5 * rr>> ])

CallCanthalTilt ==
    /\ Idle
    /\ \E lw \in 0..MaxEyeWidth, rw \in 0..MaxEyeWidth,
          lr \in -MaxRise..MaxRise, rr \in -MaxRise..MaxRise :
        /\ op' = "compute_canthal_tilt"
        /\ args' = [landmarks |-> EyeLandmarks(lw, lr, rw, rr)]
        /\ ret' = Ok(compute_canthal_tilt(EyeLandmarks(lw, lr, rw, rr)))
    /\ UNCHANGED appvars

(***************************************************************************)
(* Inputs of the skin calls: each raw attribute absent or a raw value.     *)
(***************************************************************************)
MaxHealth == 10

Absent == "absent"

RawHealthValues == 0..MaxHealth

RawAcneValues == {0, 10, 25, 50, 75, 100, 110}

FaceQualityValues == {0, 50, 80, 100}

Given(K) == {Num(n) : n \in K} \cup {Str(Absent)}

\* the mapping with the given entries, leaving out the absent ones
Present(entries) ==
    Dict([k \in {j \in DOMAIN entries : entries[j] # Str(Absent)} |-> entries[k]])

SkinFaceData(health, acne, stain, quality) ==
    Dict([attributes |->
            Present([ skinstatus |-> Present([health |-> health, acne |-> acne,
                                              stain |-> stain]),
                      facequality |-> IF quality = Str(Absent) THEN quality
                                      ELSE Dict([value |-> quality]) ])])

CallSkinMetrics ==
    /\ Idle
    /\ \E health \in Given(RawHealthValues), acne \in Given(RawAcneValues),
          stain \in Given(RawAcneValues), quality \in Given(FaceQualityValues) :
        /\ op' = "compute_skin_metrics"
        /\ args' = [face_data |-> SkinFaceData(health, acne, stain, quality)]
        /\ ret' = Ok(Dict(compute_skin_metrics(SkinFaceData(health, acne, stain, quality))))
    /\ UNCHANGED appvars

(***************************************************************************)
(* Inputs of the rating calls: the five metrics on grids that reach the    *)
(* tier boundaries, the clamps and the defaults of absent keys.            *)
(***************************************************************************)
\* male_score runs over 0 .. 5 * MaleSteps
MaleSteps == 20

\* canthal_tilt runs over -5 * MaxTiltSteps .. 5 * MaxTiltSteps degrees
MaxTiltSteps == 3

MaleScores == {Num(50 * i) : i \in 0..MaleSteps} \cup {None, Str(Absent)}

FemaleScores == {Num(0), Num(500), Num(1000), Str(Absent)}

BeautyAttributes ==
    {Present([male_score |-> m, female_score |-> f]) : m \in MaleScores, f \in FemaleScores}
    \cup {Str(Absent)}

TiltValues == {Num(500 * i) : i \in -MaxTiltSteps..MaxTiltSteps}

GonialValues == {Num(200), Num(1100), Num(1200), Num(2500)}

SymmetryValues == {Num(0), Num(800), Num(1000)}

MidfaceValues == {Num(0), Num(500), Num(550), Num(1000)}

GeometricMetrics ==
    {Dict([ canthal_tilt |-> tilt, gonial_angle |-> gonial,
            symmetry_score |-> symmetry, midface_ratio |-> midface ]) :
        tilt \in TiltValues, gonial \in GonialValues,
        symmetry \in SymmetryValues, midface \in MidfaceValues}
    \cup {Str(Absent)}

CallExtractAllMetrics ==
    /\ Idle
    /\ \E beauty \in BeautyAttributes, geometric \in GeometricMetrics :
        /\ op' = "extract_all_metrics"
        /\ args' = [beauty |-> beauty, geometric |-> geometric]
        /\ ret' = Ok(Dict(extract_all_metrics(beauty, geometric)))
    /\ UNCHANGED appvars

(***************************************************************************)
(* Inputs of the calls of the extractors that may return 'N/A': landmark   *)
(* sets over the keys the extractor reads, each key absent, stored at the  *)
(* origin, stored elsewhere, or stored with a malformed value.             *)
(***************************************************************************)
\* the keys each of them reads
ExtractorKeys ==
    [ compute_gonial_angle |-> {"contour_left9", "contour_right9", "contour_chin"},
      compute_nose_width |-> {"nose_left", "nose_right"},
      compute_nose_length |-> {"nose_contour_upper_middle", "nose_tip"},
      compute_nose_projection |-> {"nose_tip", "nose_contour_upper_middle"},
      compute_nose_chin_distance |-> {"contour_chin", "nose_tip"} ]

ApplyExtractor(name, landmarks) ==
    CASE name = "compute_gonial_angle" -> compute_gonial_angle(landmarks)
      [] name = "compute_nose_width" -> compute_nose_width(landmarks)
      [] name = "compute_nose_length" -> compute_nose_length(landmarks)
      [] name = "compute_nose_projection" -> compute_nose_projection(landmarks)
      [] name = "compute_nose_chin_distance" -> compute_nose_chin_distance(landmarks)

PointEntries ==
    { Str(Absent), Pt(0, 0), Pt(100, 290), Pt(230, 250), Pt(150, 330), None,
      Dict([k \in {"x", "y"} |-> IF k = "x" THEN Str("120") ELSE Num(160)]),
      Dict([k \in {"x", "y"} |-> IF k = "x" THEN Num(120) ELSE None]) }

LandmarkSetsOver(keys) == {Present(f) : f \in [keys -> PointEntries]} \cup {None}

CallOptionalExtractor ==
    /\ Idle
    /\ \E name \in DOMAIN ExtractorKeys :
       \E landmarks \in LandmarkSetsOver(ExtractorKeys[name]) :
        /\ op' = "optional_extractor"
        /\ args' = [extractor |-> name, landmarks |-> landmarks]
        /\ ret' = Ok(ApplyExtractor(name, landmarks))
    /\ UNCHANGED appvars

(***************************************************************************)
(* Inputs of the calls of the ratio metrics: landmark sets over the keys   *)
(* the metric reads, with absent keys, coinciding points and (but for the  *)
(* eight keys of eye_whr) a coordinate that is not a number, so that each  *)
(* denominator is zero for some sets and positive for others.              *)
(***************************************************************************)
RatioKeys ==
    [ compute_mid_face_ratio |->
          {"nose_contour_lower_middle", "mouth_upper_lip_top",
           "left_eyebrow_upper_middle", "contour_chin"},
      compute_facial_width_height_ratio |->
          {"contour_left7", "contour_right7", "left_eyebrow_upper_middle", "contour_chin"},
      compute_eye_whr |->
          {"left_eye_left_corner", "left_eye_right_corner",
           "left_eye_upper_left_quarter", "left_eye_lower_left_quarter",
           "right_eye_left_corner", "right_eye_right_corner",
           "right_eye_upper_right_quarter", "right_eye_lower_right_quarter"},
      compute_lip_fullness |->
          {"mouth_upper_lip_top", "mouth_lower_lip_bottom", "contour_left7", "contour_right7"},
      compute_jaw_prominence |->
          {"contour_left9", "contour_right9", "contour_left7", "contour_right7"} ]

ApplyRatio(name, landmarks) ==
    CASE name = "compute_mid_face_ratio" -> compute_mid_face_ratio(landmarks)
      [] name = "compute_facial_width_height_ratio" ->
             compute_facial_width_height_ratio(landmarks)
      [] name = "compute_eye_whr" -> compute_eye_whr(landmarks)
      [] name = "compute_lip_fullness" -> compute_lip_fullness(landmarks)
      [] name = "compute_jaw_prominence" -> compute_jaw_prominence(landmarks)

RatioEntries(name) ==
    {Str(Absent), Pt(100, 100), Pt(100, 130)}
    \cup IF name = "compute_eye_whr" THEN {}
         ELSE {Dict([k \in {"x", "y"} |-> IF k = "x" THEN Str("120") ELSE Num(160)])}

CallRatioMetric ==
    /\ Idle
    /\ \E name \in DOMAIN RatioKeys :
       \E f \in [RatioKeys[name] -> RatioEntries(name)] :
        /\ op' = "ratio_metric"
        /\ args' = [metric |-> name, landmarks |-> Present(f)]
        /\ ret' = Ok(ApplyRatio(name, Present(f)))
    /\ UNCHANGED appvars

(***************************************************************************)
(* Inputs of the calls of compute_angle_3points: the points of a square    *)
(* grid 50 pixels apart, coinciding and collinear triples included.        *)
(***************************************************************************)
MaxGrid == 3

GridPoints == {<<Num(50 * i), Num(50 * j)>> : i, j \in 0..MaxGrid}

CallAngle3Points ==
    /\ Idle
    /\ \E p1, p2, p3 \in GridPoints :
        /\ op' = "compute_angle_3points"
        /\ args' = [p1 |-> p1, p2 |-> p2, p3 |-> p3]
        /\ ret' = Ok(Num(compute_angle_3points(p1, p2, p3)))
    /\ UNCHANGED appvars

(***************************************************************************)
(* Inputs of the calls of compute_facial_thirds: the three landmarks it    *)
(* reads, each absent, at one of four positions (the brow on the estimated *)
(* hairline of the chin among them) or with a coordinate that is not a     *)
(* number.                                                                 *)
(***************************************************************************)
ThirdsKeys == {"contour_chin", "left_eyebrow_upper_middle", "nose_contour_lower_middle"}

ThirdsEntries ==
    { Str(Absent), Pt(200, 330), Pt(200, 130), Pt(160, 120), Pt(200, 240),
      Dict([k \in {"x", "y"} |-> IF k = "x" THEN Str("120") ELSE Num(160)]) }

CallFacialThirds ==
    /\ Idle
    /\ \E f \in [ThirdsKeys -> ThirdsEntries] :
        /\ op' = "compute_facial_thirds"
        /\ args' = [landmarks |-> Present(f)]
        /\ ret' = Ok(compute_facial_thirds(Present(f)))
    /\ UNCHANGED appvars

(***************************************************************************)
(* Inputs of the calls of compute_symmetry_score: the nose tip and the     *)
(* eight landmarks of symmetry_pairs, each present or absent, the paired   *)
(* ones at either of two positions.                                        *)
(***************************************************************************)
PairKeys == UNION {{symmetry_pairs[i][1], symmetry_pairs[i][2]} : i \in DOMAIN symmetry_pairs}

SymmetryLandmarkSets ==
    { Present(f) :
        f \in { g \in [PairKeys \cup {"nose_tip"}
                        -> {Str(Absent), Pt(150, 200), Pt(260, 200), Pt(200, 220)}] :
                  /\ g["nose_tip"] \in {Str(Absent), Pt(200, 220)}
                  /\ \A k \in PairKeys : g[k] # Pt(200, 220) } }

CallSymmetryScore ==
    /\ Idle
    /\ \E landmarks \in SymmetryLandmarkSets :
        /\ op' = "compute_symmetry_score"
        /\ args' = [landmarks |-> landmarks]
        /\ ret' = Ok(compute_symmetry_score(landmarks))
    /\ UNCHANGED appvars

(***************************************************************************)
(* Two requests served at once: each run of compute_all or of              *)
(* extract_all_metrics goes through its statements with its own frame of   *)
(* local variables, the steps of the two runs interleaved in any order.    *)
(* While op = "runs", args holds the two calls and ret the two frames.     *)
(***************************************************************************)
RunCalls ==
    { [fn |-> "compute_all", front_data |-> front, profile_data |-> profile] :
        front \in {None, Dict([k \in {"landmark"} |-> EmptyDict]),
                   FrontData(BaseFront, BaseAttributes), FrontData(BaseFront, None)},
        profile \in {None, Dict([k \in {"landmark"} |-> BaseProfile])} }
    \cup
    { [fn |-> "extract_all_metrics", beauty |-> beauty, geometric |-> geometric] :
        beauty \in {Str(Absent),
                    Dict([male_score |-> Num(900), female_score |-> Num(900)]),
                    Dict([male_score |-> None, female_score |-> Num(500)])},
        geometric \in {Str(Absent),
                       Dict([ canthal_tilt |-> Num(500), gonial_angle |-> Num(1200),
                              symmetry_score |-> Num(1000), midface_ratio |-> Num(500) ])} }

\* the frame of a run that has not started: `metrics = {}`, nothing returned
NewFrame(call) ==
    [ pc |-> IF call.fn = "compute_all" THEN "guard" ELSE "beauty",
      locals |-> NoItems, result |-> None ]

\* the local variables a run reads, as if all runs shared one frame
Local_ModuleLevel(frames, i) == frames[1].locals

\* the local variables a run reads: those of its own frame
Local(frames, i) == frames[i].locals

Store(i, pc, locals, result) ==
    /\ ret' = [ret EXCEPT ![i] = [pc |-> pc, locals |-> locals, result |-> result]]
    /\ UNCHANGED <<op, args>>
    /\ UNCHANGED appvars

CallRuns ==
    /\ Idle
    /\ \E call1, call2 \in RunCalls :
        /\ op' = "runs"
        /\ args' = <<call1, call2>>
        /\ ret' = <<NewFrame(call1), NewFrame(call2)>>
    /\ UNCHANGED appvars

\* compute_all: `if not front_data or 'landmark' not in front_data: return {}`
StepGuard ==
    /\ op = "runs"
    /\ \E i \in DOMAIN ret :
        /\ ret[i].pc = "guard"
        /\ IF Truthy(args[i].front_data) /\ Contains(args[i].front_data, "landmark") = Ok(TRUE)
           THEN Store(i, "metrics", Local(ret, i), None)
           ELSE Store(i, "done", Local(ret, i),
                      compute_all(args[i].front_data, args[i].profile_data))

\* compute_all: all_metrics built and updated with the skin metrics, unless
\* a statement raises
StepMetrics ==
    /\ op = "runs"
    /\ \E i \in DOMAIN ret :
        /\ ret[i].pc = "metrics"
        /\ LET Built(out) ==
                   IF Raised(out) THEN Store(i, "done", Local(ret, i), out)
                   ELSE Store(i, "return", out.val.d, None)
           IN  Built(compute_all(args[i].front_data, args[i].profile_data))

\* extract_all_metrics: the beauty block; an exception leads to the handler,
\* which assigns the default record
StepBeauty ==
    /\ op = "runs"
    /\ \E i \in DOMAIN ret :
        /\ ret[i].pc = "beauty"
        /\ LET Scored(scored) ==
                   IF Raised(scored) THEN Store(i, "return", DefaultMetrics, None)
                   ELSE Store(i, "geometric", DictUpdate(Local(ret, i), scored.val), None)
           IN  Scored(BeautyMetrics(args[i].beauty))

\* extract_all_metrics: the geometric metrics of the landmarks, when present
StepGeometric ==
    /\ op = "runs"
    /\ \E i \in DOMAIN ret :
        /\ ret[i].pc = "geometric"
        /\ Store(i, "rating",
                 IF IsDict(args[i].geometric)
                 THEN DictUpdate(Local(ret, i), args[i].geometric.d)
                 ELSE Local(ret, i),
                 None)

\* extract_all_metrics: composite rating and category
StepRating ==
    /\ op = "runs"
    /\ \E i \in DOMAIN ret :
        /\ ret[i].pc = "rating"
        /\ Store(i, "return", RatingStage(Local(ret, i)), None)

\* `return all_metrics` / `return metrics`
StepReturn ==
    /\ op = "runs"
    /\ \E i \in DOMAIN ret :
        /\ ret[i].pc = "return"
        /\ Store(i, "done", Local(ret, i), Ok(Dict(Local(ret, i))))

\* a call of calculate_facial_metrics, as generate_report_text makes it
CallCalculateFacialMetrics ==
    /\ Idle
    /\ \E landmarks \in ReportLandmarkSets, attributes \in ReportAttributes :
        LET front_data == Dict([landmark |-> landmarks, attributes |-> attributes])
        IN  /\ op' = "calculate_facial_metrics"
            /\ args' = [front_data |-> front_data, profile_data |-> EmptyDict]
            /\ ret' = calculate_facial_metrics(front_data, EmptyDict)
    /\ UNCHANGED appvars

Next ==
    \/ CallGetPoint
    \/ CallComputeAll
    \/ CallCanthalTilt
    \/ CallSkinMetrics
    \/ CallExtractAllMetrics
    \/ CallOptionalExtractor
    \/ CallRatioMetric
    \/ CallAngle3Points
    \/ CallFacialThirds
    \/ CallSymmetryScore
    \/ CallCalculateFacialMetrics
    \/ CallRuns
    \/ StepGuard
    \/ StepMetrics
    \/ StepBeauty
    \/ StepGeometric
    \/ StepRating
    \/ StepReturn
    \/ Return

Spec == Init /\ [][Next]_vars

(***************************************************************************)
(* Claims about the aggregator and the accessor.                           *)
(***************************************************************************)
ComputeAllReturned == op = "compute_all" /\ ~Raised(ret)

\* front_data is a mapping that contains a 'landmark' entry
HasLandmarkEntry(front_data) == IsDict(front_data) /\ "landmark" \in DOMAIN front_data.d

\* C1: compute_all never raises: for every front_data that is a mapping with
\* a 'landmark' entry and every profile_data, whatever the shape of the
\* landmark values and of the attribute values, the call returns a record.
C1_ComputeAllNeverRaises ==
    (op = "compute_all" /\ HasLandmarkEntry(args.front_data)) => ~Raised(ret)

\* the fallback constants the extractors document, in the units of the record
DocumentedFallback ==
    [ interpupil_distance |-> 600, bizygomatic_width |-> 1300, bigonial_width |-> 1100,
      mid_face_ratio |-> 650, facial_width_height_ratio |-> 850, eye_whr |-> 330,
      lip_fullness |-> 120, jaw_prominence |-> 850 ]

\* all the landmark keys metric m reads are absent, other keys are present
LacksKeysOf(front_data, m) ==
    /\ HasLandmarkEntry(front_data)
    /\ IsDict(front_data.d["landmark"])
    /\ DOMAIN front_data.d["landmark"].d # {}
    /\ MetricKeys[m] \cap DOMAIN front_data.d["landmark"].d = {}

\* C2: missing-input tolerance: a numeric metric whose landmark keys are all
\* absent from the front landmark set holds its documented fallback constant
\* or 'N/A', never 0.
C2_MissingInputFallback ==
    ComputeAllReturned =>
        \A m \in DOMAIN MetricKeys :
            LacksKeysOf(args.front_data, m) =>
                /\ \/ ret.val.d[m] = Num(DocumentedFallback[m])
                   \/ IsNA(ret.val.d[m])
                /\ ret.val.d[m] # Num(0)

\* the profile landmarks hold a chin and a subnasale that are not the sentinel
HasChinAndSubnasale(landmarks) ==
    /\ ~IsSentinel(get_point(landmarks, "contour_chin").val)
    /\ ~IsSentinel(get_point(landmarks, "nose_contour_lower_middle").val)
    /\ NumPt(get_point(landmarks, "contour_chin").val)
    /\ NumPt(get_point(landmarks, "nose_contour_lower_middle").val)

\* C3: every key of the record holds the output of the extractor of that name
\* on the landmarks of its view; with a chin and a subnasale in the profile
\* landmarks, chin_projection is compute_chin_projection of them, a number.
C3_KeysHoldExtractorOutput ==
    (ComputeAllReturned /\ DOMAIN ret.val.d # {} /\ Truthy(args.profile_data)
        /\ IsDict(args.profile_data) /\ "landmark" \in DOMAIN args.profile_data.d) =>
        LET profile == args.profile_data.d["landmark"]
            front == args.front_data.d["landmark"]
            record == ret.val.d
        IN  /\ record["interpupil_distance"] = compute_interpupil_distance(front)
            /\ record["nose_width"] = compute_nose_width(front)
            /\ Truthy(profile) =>
                /\ record["gonial_angle"] = compute_gonial_angle(profile)
                /\ record["nose_projection"] = compute_nose_projection(profile)
                /\ record["nose_chin_distance"] = compute_nose_chin_distance(profile)
                /\ record["chin_projection"] = compute_chin_projection(profile)
                /\ HasChinAndSubnasale(profile) => IsNum(record["chin_projection"])

\* the front landmark set is empty or missing
FrontLandmarksMissing(front_data) ==
    \/ ~Truthy(front_data)
    \/ ~HasLandmarkEntry(front_data)
    \/ front_data.d["landmark"] = EmptyDict

\* C4: compute_all returns the empty record exactly when the front landmark
\* set is empty or missing.
C4_EmptyRecordIffNoFrontLandmarks ==
    ComputeAllReturned =>
        (ret.val = EmptyDict <=> FrontLandmarksMissing(args.front_data))

ProfileKeys == {"gonial_angle", "chin_projection", "nose_projection", "nose_chin_distance"}

\* profile_data is None, empty, or has no or an empty 'landmark'
ProfileAbsent(profile_data) ==
    \/ ~Truthy(profile_data)
    \/ /\ IsDict(profile_data)
       /\ \/ "landmark" \notin DOMAIN profile_data.d
          \/ profile_data.d["landmark"] = EmptyDict

SuppliedProfile == Dict([k \in {"landmark"} |-> BaseProfile])

\* C5: with the profile absent compute_all returns what it returns with a
\* profile supplied, except that the four profile keys are 'N/A': the same
\* keys, every front-view metric with the same value.
C5_ProfileOptional ==
    (op = "compute_all" /\ ProfileAbsent(args.profile_data)) =>
        LET supplied == compute_all(args.front_data, SuppliedProfile) IN
        /\ Raised(ret) <=> Raised(supplied)
        /\ ~Raised(supplied) =>
            /\ DOMAIN ret.val.d = DOMAIN supplied.val.d
            /\ \A k \in DOMAIN ret.val.d :
                IF k \in ProfileKeys THEN IsNA(ret.val.d[k])
                ELSE ret.val.d[k] = supplied.val.d[k]

C5_Witness ==
    /\ ComputeAllReturned
    /\ args.profile_data = None
    /\ "gonial_angle" \in DOMAIN ret.val.d
    /\ IsNA(ret.val.d["gonial_angle"])
    /\ IsNum(compute_all(args.front_data, SuppliedProfile).val.d["gonial_angle"])
    /\ ret.val.d["interpupil_distance"] = Num(1220)

\* key is present with a well-formed {x, y} value
WellFormedAt(landmarks, key) ==
    /\ IsDict(landmarks)
    /\ key \in DOMAIN landmarks.d
    /\ IsDict(landmarks.d[key])
    /\ {"x", "y"} \subseteq DOMAIN landmarks.d[key].d

\* C6: get_point never raises; it returns the stored (x, y) of a well-formed
\* entry and the sentinel (0.0, 0.0) when the key is absent, the entry is
\* malformed or the landmark set is not a mapping.
C6_GetPointTotal ==
    op = "get_point" =>
        /\ ~Raised(ret)
        /\ IF WellFormedAt(args.landmarks, args.key)
           THEN ret.val = << args.landmarks.d[args.key].d["x"],
                             args.landmarks.d[args.key].d["y"] >>
           ELSE ret.val = Sentinel

C6_Witness ==
    /\ op = "get_point"
    /\ ~IsDict(args.landmarks)
    /\ ret = Ok(Sentinel)

(***************************************************************************)
(* Claims about the canthal tilt and the skin score.                       *)
(***************************************************************************)
\* the four eye corners of a canthal-tilt call, as (x, y) pairs of numbers
Corner(key) == get_point(args.landmarks, key).val

\* in both eyes the outer canthus is laterally outside the inner one
BothOutside ==
    /\ Corner("left_eye_left_corner")[1].v < Corner("left_eye_right_corner")[1].v
    /\ Corner("right_eye_right_corner")[1].v > Corner("right_eye_left_corner")[1].v

\* in both eyes the outer canthus is above the inner one (y grows downward)
BothAbove ==
    /\ Corner("left_eye_left_corner")[2].v < Corner("left_eye_right_corner")[2].v
    /\ Corner("right_eye_right_corner")[2].v < Corner("right_eye_left_corner")[2].v

BothBelow ==
    /\ Corner("left_eye_left_corner")[2].v > Corner("left_eye_right_corner")[2].v
    /\ Corner("right_eye_right_corner")[2].v > Corner("right_eye_left_corner")[2].v

\* the corners of each eye share their x
BothVertical ==
    /\ Corner("left_eye_left_corner")[1].v = Corner("left_eye_right_corner")[1].v
    /\ Corner("right_eye_right_corner")[1].v = Corner("right_eye_left_corner")[1].v

\* C7: sign convention of the canthal tilt: with both outer canthi above the
\* inner ones (and laterally outside them) the average tilt is strictly
\* positive, with both below strictly negative; an eye whose corners have
\* equal x contributes 0.
C7_CanthalTiltSign ==
    op = "compute_canthal_tilt" =>
        /\ (BothOutside /\ BothAbove) => ret.val.v > 0
        /\ (BothOutside /\ BothBelow) => ret.val.v < 0
        /\ BothVertical => ret.val.v = 0

\* the skinstatus mapping of a skin call
SkinStatusOf(face_data) == face_data.d["attributes"].d["skinstatus"].d

\* C8: skin failure mode: the sub-score of a raw attribute (health, acne,
\* stain) that is absent is the midpoint 50 (500 tenths), and skin_score stays the numeric
\* value of the formula: the composite is never replaced by 0 / 'N/A'.
C8_MissingSkinAttributeIsMidpoint ==
    op = "compute_skin_metrics" =>
        \A k \in {"health", "acne", "stain"} :
            k \notin DOMAIN SkinStatusOf(args.face_data) =>
                /\ ret.val.d[k] = Num(500)
                /\ IsNum(ret.val.d["skin_score"])

(***************************************************************************)
(* Claims about the rating.                                                *)
(***************************************************************************)
\* a call of extract_all_metrics that reached the rating (no exception)
Rated == op = "extract_all_metrics" /\ ~Raised(BeautyMetrics(args.beauty))

\* the five metrics of the returned record are those of m
HasMetrics(m) == \A k \in DOMAIN m : k \in DOMAIN ret.val.d /\ ret.val.d[k] = m[k]

Tiers == <<"Sub-5", "LTN", "HTN", "Chad-Lite", "PSL-God-Candidate", "PSL-God">>

\* the upper bounds 3, 4.5, 6, 7.5, 8.5 of the first five tiers, in 1/100000
TierBounds == <<300000, 450000, 600000, 750000, 850000>>

TierIndex(name) == CHOOSE i \in DOMAIN Tiers : Tiers[i] = name

\* the tier the thresholds assign: one more than the number of bounds the
\* rating exceeds, so that a boundary value falls in the lower tier
TierOf(rating) == 1 + Cardinality({i \in DOMAIN TierBounds : rating > TierBounds[i]})

\* the ratings 0, 0.05, .. 10.5
RatingGrid == {5000 * i : i \in 0..210}

\* C9: category mapping: every composite maps to exactly one tier of the
\* ordered enumeration by the thresholds <=3, <=4.5, <=6, <=7.5, <=8.5, >8.5,
\* a boundary value falls in the lower tier, and the tier never decreases
\* when the composite increases.
C9_CategoryByThresholds ==
    Rated =>
        LET rating == ret.val.d["composite_rating"].v
            tier == ret.val.d["category"].s
        IN  /\ Cardinality({i \in DOMAIN Tiers : Tiers[i] = tier}) = 1
            /\ TierIndex(tier) = TierOf(rating)
            /\ \A higher \in RatingGrid :
                   higher >= rating => TierIndex(category(higher)) >= TierIndex(tier)

\* a composite of exactly 3.0 is in the lowest tier
C9_Witness ==
    /\ Rated
    /\ ret.val.d["composite_rating"].v = 300000
    /\ ret.val.d["category"].s = "Sub-5"

\* the record of the ideal face: beauty_avg 90, canthal_tilt 5, gonial_angle
\* 120, symmetry_score 1.0, midface_ratio 0.5
IdealMetrics ==
    [ beauty_avg |-> Num(900), canthal_tilt |-> Num(500), gonial_angle |-> Num(1200),
      symmetry_score |-> Num(1000), midface_ratio |-> Num(500) ]

\* the weighted sum as the claim writes it, on the values of the record
WeightedSum(m) ==
    40 * (MetricsGet(m, "beauty_avg", 500).v * 10)
    + 25 * ClampScore(5000 + MetricsGet(m, "canthal_tilt", 0).v * 5)
    + 20 * ClampScore(10000 - Abs(MetricsGet(m, "gonial_angle", 1200).v - 1200) * 10)
    + 10 * (MetricsGet(m, "symmetry_score", 800).v * 10)
    + 5 * ClampScore(10000 - Abs(MetricsGet(m, "midface_ratio", 500).v - 500) * 20)

\* the formula, the weights and the range of the composite
CompositeFormulaAndRange ==
    Rated =>
        LET rating == ret.val.d["composite_rating"].v IN
        /\ rating = WeightedSum(ret.val.d)
        /\ WeightBeauty + WeightCanthal + WeightGonial + WeightSymmetry + WeightMidface = 100
        /\ (/\ MetricsGet(ret.val.d, "beauty_avg", 500).v \in 0..1000
            /\ MetricsGet(ret.val.d, "symmetry_score", 800).v \in 0..1000)
           => rating >= 0 /\ rating <= 1000000

\* C10 as stated: the formula, the weights, the range, and the ideal record
\* rated at or near 10 (within one point of it) in the highest tier.
C10_IdealNearTen ==
    /\ CompositeFormulaAndRange
    /\ (Rated /\ HasMetrics(IdealMetrics)) =>
           /\ ret.val.d["composite_rating"].v >= 900000
           /\ ret.val.d["category"].s = "PSL-God"

\* C10 as amended: the formula, the weights, the range, and the ideal record
\* rated 8.975, above the 8.5 bound, in the highest tier.
C10_IdealInHighestTier ==
    /\ CompositeFormulaAndRange
    /\ (Rated /\ HasMetrics(IdealMetrics)) =>
           /\ ret.val.d["composite_rating"].v = 897500
           /\ ret.val.d["category"].s = "PSL-God"

C10_Witness ==
    /\ Rated
    /\ HasMetrics(IdealMetrics)
    /\ ret.val.d["category"].s = Tiers[6]

\* the record rated again with another beauty_avg, all else equal
WithBeautyAvg(avg) == RatingStage(DictUpdate(ret.val.d, [beauty_avg |-> Num(avg)]))

BeautyAvgOf(record) == MetricsGet(record, "beauty_avg", 500).v

\* beauty_avg 0, 2.5, .. 100
BeautyAvgGrid == {25 * i : i \in 0..40}

\* C11: classifier monotonicity: of two records that differ only in
\* beauty_avg, the one with the larger beauty_avg has a composite that is
\* greater or equal and a tier that is not lower.
C11_BeautyMonotone ==
    Rated =>
        \A avg \in BeautyAvgGrid :
            LET theirs == WithBeautyAvg(avg) IN
            avg >= BeautyAvgOf(ret.val.d)
            => /\ theirs["composite_rating"].v >= ret.val.d["composite_rating"].v
               /\ TierIndex(theirs["category"].s) >= TierIndex(ret.val.d["category"].s)

\* a larger beauty_avg, all else equal, lifts this record into a higher tier
C11_Witness ==
    /\ Rated
    /\ \E avg \in BeautyAvgGrid :
           /\ avg > BeautyAvgOf(ret.val.d)
           /\ WithBeautyAvg(avg)["composite_rating"].v > ret.val.d["composite_rating"].v
           /\ TierIndex(WithBeautyAvg(avg)["category"].s) > TierIndex(ret.val.d["category"].s)

(***************************************************************************)
(* Claims about the single extractors.                                     *)
(***************************************************************************)
\* the end points whose absence makes the extractor return 'N/A'
RequiredEnds ==
    [ compute_gonial_angle |-> {"contour_left9", "contour_right9"},
      compute_nose_width |-> {"nose_left", "nose_right"},
      compute_nose_length |-> {"nose_contour_upper_middle", "nose_tip"},
      compute_nose_projection |-> {"nose_tip", "nose_contour_upper_middle"},
      compute_nose_chin_distance |-> {"contour_chin", "nose_tip"} ]

\* one of the required end points of this call is the missing-sentinel
SentinelEnd ==
    \E k \in RequiredEnds[args.extractor] : get_point(args.landmarks, k) = Ok(Sentinel)

\* a point this call computes with has a coordinate that is not a number
\* (compute_nose_projection computes with the x coordinates alone)
NonNumericCoordinate ==
    \E k \in ExtractorKeys[args.extractor] :
        LET p == get_point(args.landmarks, k).val IN
        \/ ~IsNum(p[1])
        \/ args.extractor # "compute_nose_projection" /\ ~IsNum(p[2])

\* the number returned is non-negative, a gonial angle at most 180 degrees
InRange(value) ==
    /\ IsNum(value)
    /\ value.v >= 0
    /\ args.extractor = "compute_gonial_angle" => value.v <= 1800

\* C12 as stated: the extractor never raises, returns 'N/A' exactly when a
\* required end point is the missing-sentinel, and a number in range
\* otherwise.
C12_UnavailableIffSentinel ==
    op = "optional_extractor" =>
        /\ ~Raised(ret)
        /\ IsNA(ret.val) <=> SentinelEnd
        /\ ~IsNA(ret.val) => InRange(ret.val)

\* C12 as amended: the extractor never raises, returns 'N/A' exactly when a
\* required end point is the missing-sentinel or a coordinate it computes
\* with is not a number, and a number in range otherwise.
C12_UnavailableIffSentinelOrNonNumeric ==
    op = "optional_extractor" =>
        /\ ~Raised(ret)
        /\ IsNA(ret.val) <=> (SentinelEnd \/ NonNumericCoordinate)
        /\ ~IsNA(ret.val) => InRange(ret.val)

\* the gonial angle of a jaw whose right end point is missing
C12_Witness ==
    /\ op = "optional_extractor"
    /\ args.extractor = "compute_gonial_angle"
    /\ IsDict(args.landmarks)
    /\ "contour_right9" \notin DOMAIN args.landmarks.d
    /\ "contour_left9" \in DOMAIN args.landmarks.d
    /\ get_point(args.landmarks, "contour_left9") # Ok(Sentinel)
    /\ IsNA(ret.val)

\* the distance of two landmarks of the call as the code measures it, in
\* tenths of a pixel; -1 when the measurement raises
Span(key1, key2) ==
    LET Points(a, b) == IF Fails(<<a, b>>) THEN -1 ELSE compute_distance(a.val, b.val)
    IN  Points(get_point(args.landmarks, key1), get_point(args.landmarks, key2))

\* the denominator of the ratio of this call; -1 when it cannot be measured
Denominator ==
    CASE args.metric \in {"compute_mid_face_ratio", "compute_facial_width_height_ratio"} ->
             Span("left_eyebrow_upper_middle", "contour_chin")
      [] args.metric = "compute_eye_whr" ->
             LET left_width == Span("left_eye_left_corner", "left_eye_right_corner")
                 right_width == Span("right_eye_left_corner", "right_eye_right_corner")
             IN  IF left_width < 0 \/ right_width < 0 THEN -1 ELSE left_width + right_width
      [] OTHER -> compute_bizygomatic_width(args.landmarks).v

RatioFallback ==
    [ compute_mid_face_ratio |-> Num(650),
      compute_facial_width_height_ratio |-> Num(850),
      compute_eye_whr |-> Num(330),
      compute_lip_fullness |-> Num(120),
      compute_jaw_prominence |-> Num(850) ]

\* C13: a ratio metric whose denominator is 0 returns its fixed fallback
\* (0.65, 0.85, 0.33, 0.12, 0.85), and a value other than the fallback is a
\* quotient by a positive denominator: no division by zero is made.
C13_ZeroDenominatorFallback ==
    op = "ratio_metric" =>
        /\ Denominator = 0 => ret.val = RatioFallback[args.metric]
        /\ ret.val # RatioFallback[args.metric] => Denominator > 0
        /\ ~Raised(ret)

\* the cheekbone points coincide, away from the origin, and the jaw is wide
C13_Witness ==
    /\ op = "ratio_metric"
    /\ args.metric = "compute_jaw_prominence"
    /\ get_point(args.landmarks, "contour_left7") = Ok(<<Num(100), Num(130)>>)
    /\ get_point(args.landmarks, "contour_right7") = Ok(<<Num(100), Num(130)>>)
    /\ compute_bigonial_width(args.landmarks).v = 300
    /\ Denominator = 0
    /\ ret.val = Num(850)

\* the cosine the call hands to the inverse cosine, for rays that are not
\* of zero magnitude
CosineOfCall ==
    LET Vectors(v1x, v1y, v2x, v2y) ==
            cos_angle(v1x * v2x + v1y * v2y,
                      ISqrt(100 * (v1x * v1x + v1y * v1y)),
                      ISqrt(100 * (v2x * v2x + v2y * v2y)))
    IN  Vectors(args.p1[1].v - args.p2[1].v, args.p1[2].v - args.p2[2].v,
                args.p3[1].v - args.p2[1].v, args.p3[2].v - args.p2[2].v)

ZeroRay == args.p1 = args.p2 \/ args.p3 = args.p2

\* C14: compute_angle_3points returns 0 when p1 = p2 or p3 = p2; otherwise
\* the cosine handed to the inverse cosine is within [-1, 1]; the angle
\* returned is within [0, 180] degrees for every triple of points.
C14_AngleTotalAndBounded ==
    op = "compute_angle_3points" =>
        /\ ZeroRay => ret.val = Num(0)
        /\ ~ZeroRay => CosineOfCall \in (-CosScale)..CosScale
        /\ ~Raised(ret)
        /\ ret.val.v \in 0..18000

\* a ray of zero magnitude next to one that is not
C14_Witness ==
    /\ op = "compute_angle_3points"
    /\ args.p1 = args.p2
    /\ args.p3 # args.p2
    /\ ret.val = Num(0)

\* the total of the three segment lengths of the call, in tenths of a pixel;
\* -1 when a coordinate is not a number
SegmentTotal ==
    LET Points(chin, glabella, subnasale) ==
            IF Fails(<<chin, glabella, subnasale>>) THEN -1
            ELSE compute_distance(<<chin.val[1], Num(chin.val[2].v - 200)>>, glabella.val)
                 + compute_distance(glabella.val, subnasale.val)
                 + compute_distance(subnasale.val, chin.val)
    IN  Points(get_point(args.landmarks, "contour_chin"),
               get_point(args.landmarks, "left_eyebrow_upper_middle"),
               get_point(args.landmarks, "nose_contour_lower_middle"))

ThirdsSum == ret.val[1].v + ret.val[2].v + ret.val[3].v

\* C15: compute_facial_thirds returns three non-negative proportions whose
\* sum is 100 (here 10000 hundredths, less at most one hundredth for each of
\* the three proportions rounded down) when the total of the segment lengths
\* is positive, and (33.3, 33.3, 33.3) when the total is zero.
C15_ThirdsSumTo100 ==
    op = "compute_facial_thirds" =>
        /\ ~Raised(ret)
        /\ SegmentTotal > 0 =>
               /\ \A i \in 1..3 : ret.val[i].v >= 0
               /\ 10000 - ThirdsSum \in 0..2
        /\ SegmentTotal = 0 => ret.val = <<Num(3330), Num(3330), Num(3330)>>

\* three landmarks in place, three segments of positive length
C15_Witness ==
    /\ op = "compute_facial_thirds"
    /\ DOMAIN args.landmarks.d = ThirdsKeys
    /\ SegmentTotal > 0
    /\ \A i \in 1..3 : ret.val[i].v > 0
    /\ 10000 - ThirdsSum \in 0..2

\* both landmarks of the pair are in the landmark set of the call
PairFound(pair) == pair[1] \in DOMAIN args.landmarks.d /\ pair[2] \in DOMAIN args.landmarks.d

\* C16: compute_symmetry_score returns a value in [0, 1] for every landmark
\* set, and exactly the neutral constant 0.8 when no landmark pair is found,
\* all landmarks missing included.
C16_SymmetryBoundedAndNeutral ==
    op = "compute_symmetry_score" =>
        /\ ~Raised(ret)
        /\ ret.val.v \in 0..1000
        /\ (\A i \in DOMAIN symmetry_pairs : ~PairFound(symmetry_pairs[i]))
               => ret.val = Num(800)

(***************************************************************************)
(* Claims about the skin metrics.                                          *)
(***************************************************************************)
\* the raw value of the call, the default 50 when the attribute is absent
RawOf(k) ==
    IF k \in DOMAIN SkinStatusOf(args.face_data) THEN SkinStatusOf(args.face_data)[k].v
    ELSE RawSkinDefault

\* the sub-score k of the call made again with the raw value n for k, all
\* else equal
WithRaw(k, n) ==
    compute_skin_metrics(
        Dict(DictUpdate(args.face_data.d,
            [attributes |->
                Dict(DictUpdate(args.face_data.d["attributes"].d,
                    [skinstatus |->
                        Dict(DictUpdate(SkinStatusOf(args.face_data),
                                        [j \in {k} |-> Num(n)]))]))])))[k]

\* raw values below, on and above the nominal ranges 0..10 and 0..100
RawGrid == (-2..12) \cup {-20, 25, 50, 75, 99, 100, 101, 120}

\* C17: the normalized sub-scores health, acne and stain are each within
\* [0, 100] for every raw value; the health sub-score never decreases when
\* raw health increases, and the acne and stain sub-scores never increase
\* when raw acne / stain increase.
C17_SkinNormalized ==
    op = "compute_skin_metrics" =>
        \A k \in {"health", "acne", "stain"} :
            /\ ret.val.d[k].v \in 0..1000
            /\ \A n \in RawGrid :
                   LET theirs == WithRaw(k, n) IN
                   /\ theirs.v \in 0..1000
                   /\ n >= RawOf(k) =>
                          IF k = "health" THEN theirs.v >= ret.val.d[k].v
                          ELSE theirs.v <= ret.val.d[k].v

\* raw health 4 and raw acne 50, between the clamps: a larger raw health
\* gives a larger sub-score, a larger raw acne a smaller one
C17_Witness ==
    /\ op = "compute_skin_metrics"
    /\ RawOf("health") = 4
    /\ ret.val.d["health"] = Num(700)
    /\ WithRaw("health", 5).v > 700
    /\ RawOf("acne") = 50
    /\ ret.val.d["acne"] = Num(600)
    /\ WithRaw("acne", 75).v < 600
    /\ WithRaw("acne", 120) = Num(0)
    /\ WithRaw("health", -2) = Num(0)

\* face_quality of the call, the default 80 when facequality is absent
FaceQualityOf ==
    IF "facequality" \in DOMAIN args.face_data.d["attributes"].d
    THEN args.face_data.d["attributes"].d["facequality"].d["value"].v
    ELSE FaceQualityDefault

\* 0.7 * (0.45 * health + 0.40 * acne + 0.15 * stain) + 0.3 * face_quality
\* in units of 1/10000, for sub-scores in tenths
SkinFormula(health, acne, stain, face_quality) ==
    7 * (45 * health + 40 * acne + 15 * stain) + 3000 * face_quality

SkinFormulaOfCall ==
    SkinFormula(ret.val.d["health"].v, ret.val.d["acne"].v, ret.val.d["stain"].v,
                FaceQualityOf)

BestCase ==
    /\ RawOf("health") = 8 /\ "health" \in DOMAIN SkinStatusOf(args.face_data)
    /\ RawOf("acne") = 0
    /\ RawOf("stain") = 0
    /\ FaceQualityOf = 100

\* C18: skin_score is 0.7 * (0.45 * health_norm + 0.40 * acne_norm +
\* 0.15 * stain_norm) + 0.3 * face_quality rounded to one decimal (the
\* nearest tenth); with face_quality in [0, 100] it lies in [0, 100]; the
\* best case (health 8, acne 0, stain 0, face_quality 100) yields 100.
C18_SkinComposite ==
    op = "compute_skin_metrics" =>
        /\ Abs(1000 * ret.val.d["skin_score"].v - SkinFormulaOfCall) <= 500
        /\ FaceQualityOf \in 0..100 => ret.val.d["skin_score"].v \in 0..1000
        /\ BestCase => ret.val.d["skin_score"] = Num(1000)

\* the best case
C18_Witness ==
    /\ op = "compute_skin_metrics"
    /\ BestCase
    /\ SkinFormulaOfCall = 1000000
    /\ ret.val.d["skin_score"] = Num(1000)

(***************************************************************************)
(* Claims about the sub-scores of the rating.                              *)
(***************************************************************************)
\* the rated record with another value of one metric
WithMetric(key, value) == DictUpdate(ret.val.d, [k \in {key} |-> Num(value)])

\* canthal_tilt -12 .. 12 degrees, gonial_angle 0 .. 250 degrees,
\* midface_ratio 0 .. 1.2
CanthalGrid == {100 * i : i \in -12..12}

GonialGrid == {100 * i : i \in 0..25} \cup {1190, 1199, 1201, 1210}

MidfaceGrid == {50 * i : i \in 0..24} \cup {499, 501}

\* C19: the canthal, gonial and midface sub-scores lie in [0, 10]; the
\* canthal sub-score is 5 at tilt 0 and never decreases as canthal_tilt
\* increases; the gonial sub-score is 10 - |gonial_angle - 120| / 10 cut off
\* at 0, at its maximum exactly at 120 degrees and never larger for a larger
\* |gonial_angle - 120|; the midface sub-score is at its maximum at ratio 0.5
\* and never larger for a larger |midface_ratio - 0.5|.
C19_SubScores ==
    Rated =>
        /\ canthal_score(WithMetric("canthal_tilt", 0)) = 5000
        /\ \A t \in CanthalGrid :
               LET theirs == canthal_score(WithMetric("canthal_tilt", t)) IN
               /\ theirs \in 0..10000
               /\ t >= MetricsGet(ret.val.d, "canthal_tilt", 0).v
                      => theirs >= canthal_score(ret.val.d)
        /\ \A g \in GonialGrid :
               LET theirs == gonial_score(WithMetric("gonial_angle", g)) IN
               /\ theirs \in 0..10000
               /\ theirs = Max(0, 10000 - 10 * Abs(g - 1200))
               /\ theirs = 10000 <=> g = 1200
               /\ Abs(g - 1200) >= Abs(MetricsGet(ret.val.d, "gonial_angle", 1200).v - 1200)
                      => theirs <= gonial_score(ret.val.d)
        /\ midface_score(WithMetric("midface_ratio", 500)) = 10000
        /\ \A r \in MidfaceGrid :
               LET theirs == midface_score(WithMetric("midface_ratio", r)) IN
               /\ theirs \in 0..10000
               /\ Abs(r - 500) >= Abs(MetricsGet(ret.val.d, "midface_ratio", 500).v - 500)
                      => theirs <= midface_score(ret.val.d)

\* a rated record off the three ideals, with a larger tilt scoring higher
\* and larger deviations scoring lower
C19_Witness ==
    /\ Rated
    /\ "gonial_angle" \in DOMAIN ret.val.d
    /\ ret.val.d["canthal_tilt"] = Num(500)
    /\ canthal_score(ret.val.d) = 7500
    /\ canthal_score(WithMetric("canthal_tilt", 600)) > 7500
    /\ ret.val.d["gonial_angle"] = Num(1100)
    /\ gonial_score(ret.val.d) = 9000
    /\ gonial_score(WithMetric("gonial_angle", 1000)) < 9000
    /\ ret.val.d["midface_ratio"] = Num(550)
    /\ midface_score(ret.val.d) = 9000
    /\ midface_score(WithMetric("midface_ratio", 600)) < 9000

(***************************************************************************)
(* Claims about runs.                                                      *)
(***************************************************************************)
\* what a call returns when it runs alone
Alone(call) ==
    IF call.fn = "compute_all" THEN compute_all(call.front_data, call.profile_data)
    ELSE Ok(Dict(extract_all_metrics(call.beauty, call.geometric)))

Finished(i) == ret[i].pc = "done"

\* the items of a record in the order given, as a dict display lists them
ItemsOf(record, keys) == [i \in DOMAIN keys |-> <<keys[i], record[keys[i]]>>]

Rotated(keys) == [i \in DOMAIN keys |-> keys[(i % Len(keys)) + 1]]

Reversed(keys) == [i \in DOMAIN keys |-> keys[Len(keys) + 1 - i]]

\* the keys of the metrics the classifier reads, in some order
KeysInOrder(metrics) ==
    LET RECURSIVE Listed(_)
        Listed(S) == IF S = {} THEN <<>>
                     ELSE LET k == CHOOSE x \in S : TRUE IN <<k>> \o Listed(S \ {k})
    IN  Listed(DOMAIN metrics)

\* the metrics the rated call handed to the rating stage
RatedMetrics ==
    IF IsDict(args.geometric)
    THEN DictUpdate(BeautyMetrics(args.beauty).val, args.geometric.d)
    ELSE BeautyMetrics(args.beauty).val

SameRating(a, b) ==
    a["composite_rating"] = b["composite_rating"] /\ a["category"] = b["category"]

UserIds == {1, 2}

\* the user whose requests the model follows, and the ambassador
Actors == {1}

Ambassadors == {2}

\* requests handled in one behaviour
MaxRequests == 3

SUBSCRIPTION_ANALYSES == 2

SUBSCRIPTION_MESSAGES == 200

\* a row as the model's defaults create it
User(referred_by_id) ==
    [ is_active_until |-> "None",
      analyses_left |-> 0,
      messages_left |-> 0,
      subscription_source |-> "None",
      referred_by_id |-> referred_by_id,
      referral_payout_pending |-> FALSE ]

\* the loaded object after the body of give_subscription_to_user
give_subscription_to_user(user, analyses, messages, source) ==
    [ user EXCEPT !.is_active_until = "future",
                  !.analyses_left = @ + analyses,
                  !.messages_left = @ + messages,
                  !.subscription_source = source,
                  !.referral_payout_pending =
                      IF user.referred_by_id # 0 /\ ~@ THEN TRUE ELSE @ ]

\* the loaded object after the body of revoke_subscription
revoke_subscription(user) ==
    [ user EXCEPT !.is_active_until = "None",
                  !.analyses_left = 0,
                  !.messages_left = 0 ]

\* `if user and user.messages_left > 0: user.messages_left -= 1`
decrement_user_messages(found, user) ==
    IF found /\ user.messages_left > 0
    THEN [user EXCEPT !.messages_left = @ - 1]
    ELSE user

\* the decrement without the test of the counter
decrement_user_analyses_NoGuard(found, user) ==
    [user EXCEPT !.analyses_left = @ - 1]

\* `if user and user.analyses_left > 0: user.analyses_left -= 1`
decrement_user_analyses(found, user) ==
    IF found /\ user.analyses_left > 0
    THEN [user EXCEPT !.analyses_left = @ - 1]
    ELSE user

\* session.get(User, user_id): the row, if there is one
Found(user_id) == user_id \in DOMAIN users

Loaded(user_id) == IF Found(user_id) THEN users[user_id] ELSE User(0)

\* session.commit(): an UPDATE of the attributes that differ from the loaded
\* values, or the INSERT of a row created with session.add
Committed(user_id, found, loaded, new) ==
    IF found
    THEN [users EXCEPT ![user_id] =
             [a \in DOMAIN new |-> IF new[a] # loaded[a] THEN new[a] ELSE @[a]]]
    ELSE (user_id :> new) @@ users

\* the INSERT of a row whose key another request has inserted meanwhile
IntegrityError(user_id, found) == ~found /\ Found(user_id)

\* a request in flight: the function, its user, the statement it waits at,
\* the object its session loaded and the `source` of the grant it makes
NewCall(fn, user_id, source) ==
    [ fn |-> fn, user_id |-> user_id, pc |-> "get",
      found |-> FALSE, user |-> User(0), source |-> source, selected |-> {} ]

Zeroes == [u \in UserIds |-> 0]

Plus(count, user_id, n) == [count EXCEPT ![user_id] = @ + n]

enginevars == <<op, args, ret>>

othervars == <<op, args, ret, split, worker>>

\* a request arrives and runs up to its first database call
Accept(frame) ==
    /\ tally.started < MaxRequests
    /\ calls' = calls (+) SetToBag({frame})
    /\ tally' = [tally EXCEPT !.started = @ + 1]

\* a request moves from one await to the next
Await(frame, next) == calls' = (calls (-) SetToBag({frame})) (+) SetToBag({next})

\* a request ends: its frame at the end and what it returned (or the HTTP
\* status it answered)
Complete(frame, ended, result) ==
    /\ calls' = calls (-) SetToBag({frame})
    /\ last' = [frame |-> ended, result |-> result]

Finish(frame, result) == Complete(frame, frame, result)

Waiting(fn, pc) == {frame \in BagToSet(calls) : frame.fn = fn /\ frame.pc = pc}

\* the object the session of a request loads
Get(frame) ==
    [frame EXCEPT !.found = Found(frame.user_id), !.user = Loaded(frame.user_id)]

At(frame, pc) == [frame EXCEPT !.pc = pc]

(***************************************************************************)
(* Grants: the admin's gift and the payment notification of YooKassa.      *)
(***************************************************************************)
\* the admin handlers call give_subscription_to_user(user_obj.id)
CallGiveSubscription ==
    \E user_id \in Actors :
        /\ Accept(NewCall("give_subscription_to_user", user_id, "granted"))
        /\ UNCHANGED <<users, last, othervars>>

\* int(text) of the metadata's user_id: None when int() raises
int(text) ==
    CASE text = "0" -> Num(0)
      [] text = "1" -> Num(1)
      [] text = "2" -> Num(2)
      [] OTHER -> None

\* the notifications: the event and the user_id of object.metadata ("None":
\* the key is missing)
Notifications ==
    [ event : {"payment.succeeded", "payment.canceled"},
      user_id : {"1", "0", "abc", "None"} ]

\* yookassa_webhook_handler up to the call of give_subscription_to_user, or to
\* its response when it makes none
Webhook ==
    \E data \in Notifications :
        LET request(user_id) == NewCall("yookassa_webhook_handler", user_id, "purchased")
            Answer(status) ==
                /\ tally.started < MaxRequests
                /\ tally' = [tally EXCEPT !.started = @ + 1]
                /\ last' = [frame |-> request(0), result |-> status]
                /\ UNCHANGED <<users, calls, othervars>>
        IN  IF data.event # "payment.succeeded" THEN Answer(200)
            ELSE IF int(data.user_id) = None THEN Answer(500)
            ELSE IF int(data.user_id).v = 0 THEN Answer(200)
            ELSE /\ Accept(request(int(data.user_id).v))
                 /\ UNCHANGED <<users, last, othervars>>

Granting == Waiting("give_subscription_to_user", "get")
                \cup Waiting("yookassa_webhook_handler", "get")

\* give_subscription_to_user: `user = await session.get(User, user_id)`
GiveGet ==
    \E frame \in Granting :
        /\ Await(frame, At(Get(frame), "commit"))
        /\ UNCHANGED <<users, tally, last, othervars>>

\* give_subscription_to_user: the body and `await session.commit()`; the
\* webhook goes on to notify the user
GiveCommit ==
    \E frame \in Waiting("give_subscription_to_user", "commit")
                    \cup Waiting("yookassa_webhook_handler", "commit") :
        LET paid == frame.fn = "yookassa_webhook_handler"
        IN  IF IntegrityError(frame.user_id, frame.found)
            THEN /\ IF paid THEN Finish(frame, 500) ELSE Finish(frame, "IntegrityError")
                 /\ UNCHANGED <<users, tally, othervars>>
            ELSE /\ users' = Committed(frame.user_id, frame.found, frame.user,
                                 give_subscription_to_user(frame.user,
                                     SUBSCRIPTION_ANALYSES, SUBSCRIPTION_MESSAGES,
                                     frame.source))
                 /\ tally' = [tally EXCEPT
                        !.analyses = Plus(@, frame.user_id, SUBSCRIPTION_ANALYSES),
                        !.messages = Plus(@, frame.user_id, SUBSCRIPTION_MESSAGES),
                        !.paid = Plus(@, frame.user_id, IF paid THEN 1 ELSE 0)]
                 /\ IF paid
                    THEN Await(frame, At(frame, "notify")) /\ UNCHANGED last
                    ELSE Finish(frame, "None")
                 /\ UNCHANGED othervars

\* yookassa_webhook_handler: `await bot.send_message(...)`, which raises when
\* Telegram refuses the message, and the response
WebhookNotify ==
    \E frame \in Waiting("yookassa_webhook_handler", "notify") :
        /\ \E sent \in BOOLEAN : Finish(frame, IF sent THEN 200 ELSE 500)
        /\ UNCHANGED <<users, tally, othervars>>

(***************************************************************************)
(* Revocation and the decrement of the analyses.                           *)
(***************************************************************************)
\* the admin handlers call revoke_subscription(user_obj.id)
CallRevokeSubscription ==
    \E user_id \in Actors :
        /\ Accept(NewCall("revoke_subscription", user_id, "None"))
        /\ UNCHANGED <<users, last, othervars>>

\* revoke_subscription: the row is loaded; `return False` without one, or
\* without an expiry date
RevokeGet ==
    \E frame \in Waiting("revoke_subscription", "get") :
        /\ IF ~Found(frame.user_id) \/ Loaded(frame.user_id).is_active_until = "None"
           THEN Complete(frame, Get(frame), FALSE)
           ELSE Await(frame, At(Get(frame), "commit")) /\ UNCHANGED last
        /\ UNCHANGED <<users, tally, othervars>>

\* revoke_subscription: the three assignments, the commit and `return True`
RevokeCommit ==
    \E frame \in Waiting("revoke_subscription", "commit") :
        /\ users' = Committed(frame.user_id, TRUE, frame.user,
                              revoke_subscription(frame.user))
        /\ Finish(frame, TRUE)
        /\ UNCHANGED <<tally, othervars>>

\* decrement_user_analyses(user_id); no handler of the bot calls it
CallDecrementAnalyses ==
    \E user_id \in Actors :
        /\ Accept(NewCall("decrement_user_analyses", user_id, "None"))
        /\ UNCHANGED <<users, last, othervars>>

\* decrement_user_analyses: the row is loaded; `return False` unless it has
\* analyses left
AnalysesGet ==
    \E frame \in Waiting("decrement_user_analyses", "get") :
        /\ IF decrement_user_analyses(Found(frame.user_id), Loaded(frame.user_id))
                  = Loaded(frame.user_id)
           THEN Complete(frame, Get(frame), FALSE)
           ELSE Await(frame, At(Get(frame), "commit")) /\ UNCHANGED last
        /\ UNCHANGED <<users, tally, othervars>>

\* decrement_user_analyses: `user.analyses_left -= 1`, the commit, `return True`
AnalysesCommit ==
    \E frame \in Waiting("decrement_user_analyses", "commit") :
        /\ users' = Committed(frame.user_id, TRUE, frame.user,
                              decrement_user_analyses(TRUE, frame.user))
        /\ Finish(frame, TRUE)
        /\ UNCHANGED <<tally, othervars>>

(***************************************************************************)
(* The AI chat: handle_all_text.                                           *)
(***************************************************************************)
HandleAllText ==
    \E user_id \in Actors :
        /\ Accept(NewCall("handle_all_text", user_id, "None"))
        /\ UNCHANGED <<users, last, othervars>>

\* `user = await get_user(user_id)` and the two refusals
TextGetUser ==
    \E frame \in Waiting("handle_all_text", "get") :
        /\ IF ~Found(frame.user_id)
                \/ Loaded(frame.user_id).is_active_until # "future"
                \/ Loaded(frame.user_id).messages_left <= 0
           THEN Complete(frame, Get(frame), "refused")
           ELSE Await(frame, At(Get(frame), "answer")) /\ UNCHANGED last
        /\ UNCHANGED <<users, tally, othervars>>

\* the AI's answer is streamed into the chat, or the stream raises and the
\* user reads the error message
TextAnswer ==
    \E frame \in Waiting("handle_all_text", "answer") :
        /\ \E answered \in BOOLEAN :
            IF answered
            THEN /\ Await(frame, At(frame, "decrement"))
                 /\ tally' = [tally EXCEPT !.answers = Plus(@, frame.user_id, 1)]
                 /\ UNCHANGED last
            ELSE Finish(frame, "error") /\ UNCHANGED tally
        /\ UNCHANGED <<users, othervars>>

\* decrement_user_messages: the row is loaded; nothing to do unless it has
\* messages left
MessagesGet ==
    \E frame \in Waiting("handle_all_text", "decrement") :
        /\ IF decrement_user_messages(Found(frame.user_id), Loaded(frame.user_id))
                  = Loaded(frame.user_id)
           THEN Complete(frame, Get(frame), "answered")
           ELSE Await(frame, At(Get(frame), "commit")) /\ UNCHANGED last
        /\ UNCHANGED <<users, tally, othervars>>

\* decrement_user_messages: `user.messages_left -= 1` and the commit
MessagesCommit ==
    \E frame \in Waiting("handle_all_text", "commit") :
        /\ users' = Committed(frame.user_id, TRUE, frame.user,
                              decrement_user_messages(TRUE, frame.user))
        /\ Finish(frame, "answered")
        /\ UNCHANGED <<tally, othervars>>

(***************************************************************************)
(* An analysis: start_analysis or /analyze, the photos, run_analysis.      *)
(***************************************************************************)
StartAnalysis ==
    \E user_id \in Actors :
        /\ Accept(NewCall("start_analysis", user_id, "None"))
        /\ UNCHANGED <<users, last, othervars>>

\* `user = await get_user(user_id)`
AnalysisGetUser ==
    \E frame \in Waiting("start_analysis", "get") :
        /\ Await(frame, At(Get(frame), "check"))
        /\ UNCHANGED <<users, tally, last, othervars>>

\* `has_subscription = await check_subscription(user_id)` and the refusals;
\* `user.analyses_left` raises when get_user found no row
AnalysisCheck ==
    \E frame \in Waiting("start_analysis", "check") :
        /\ IF ~Found(frame.user_id) \/ Loaded(frame.user_id).is_active_until # "future"
           THEN Finish(frame, "refused")
           ELSE IF ~frame.found THEN Finish(frame, "error")
           ELSE IF frame.user.analyses_left <= 0 THEN Finish(frame, "refused")
           ELSE Await(frame, At(frame, "run")) /\ UNCHANGED last
        /\ UNCHANGED <<users, tally, othervars>>

\* run_analysis: the report is generated and sent, or the error message is
\* sent; analyses_left is not written
run_analysis ==
    \E frame \in Waiting("start_analysis", "run") :
        /\ \E reported \in BOOLEAN :
            IF reported
            THEN /\ Finish(frame, "report")
                 /\ tally' = [tally EXCEPT !.reports = Plus(@, frame.user_id, 1)]
            ELSE Finish(frame, "error") /\ UNCHANGED tally
        /\ UNCHANGED <<users, othervars>>

(***************************************************************************)
(* The ambassador's payouts.                                               *)
(***************************************************************************)
CallConfirmPayouts ==
    \E ambassador_id \in Ambassadors :
        /\ Accept(NewCall("confirm_referral_payouts", ambassador_id, "None"))
        /\ UNCHANGED <<users, last, othervars>>

\* confirm_referral_payouts: the SELECT; `count` is 0 and nothing is
\* committed when it finds no row
ConfirmSelect ==
    \E frame \in Waiting("confirm_referral_payouts", "get") :
        LET users_to_update ==
                {u \in DOMAIN users : /\ users[u].referred_by_id = frame.user_id
                                      /\ users[u].referral_payout_pending}
        IN  /\ IF users_to_update = {}
               THEN Finish(frame, 0)
               ELSE /\ Await(frame, [At(frame, "commit") EXCEPT
                                         !.selected = users_to_update])
                    /\ UNCHANGED last
            /\ UNCHANGED <<users, tally, othervars>>

\* confirm_referral_payouts: the flags are reset and committed
ConfirmCommit ==
    \E frame \in Waiting("confirm_referral_payouts", "commit") :
        /\ users' = [u \in DOMAIN users |->
                        IF u \in frame.selected
                        THEN [users[u] EXCEPT !.referral_payout_pending = FALSE]
                        ELSE users[u]]
        /\ Finish(frame, Cardinality(frame.selected))
        /\ UNCHANGED <<tally, othervars>>

(***************************************************************************)
(* The bot's specification.  User 2 has registered and has no subscription;*)
(* user 1 is unknown, registered (with or without user 2 as the referrer)  *)
(* or a subscriber with one analysis and one message of a purchase left.   *)
(***************************************************************************)
InitialLeft == 1

Subscribers ==
    { [User(referrer) EXCEPT !.is_active_until = until,
                             !.analyses_left = InitialLeft,
                             !.messages_left = InitialLeft,
                             !.subscription_source = "purchased",
                             !.referral_payout_pending = pending] :
        referrer \in {0, 2}, until \in {"past", "future"}, pending \in BOOLEAN }

InitialUsers ==
    {(2 :> User(0))}
      \cup {(1 :> user) @@ (2 :> User(0)) :
                user \in {User(0), User(2)}
                    \cup {s \in Subscribers :
                              s.referral_payout_pending => s.referred_by_id # 0}}

BotInit ==
    /\ EngineIdle
    /\ split = NoItems
    /\ worker = NoItems
    /\ users \in InitialUsers
    /\ calls = EmptyBag
    /\ tally = [ started |-> 0, answers |-> Zeroes, reports |-> Zeroes,
                 analyses |-> [u \in UserIds |-> Loaded(u).analyses_left],
                 messages |-> [u \in UserIds |-> Loaded(u).messages_left],
                 paid |-> [u \in UserIds |->
                              IF Loaded(u).subscription_source = "purchased"
                              THEN 1 ELSE 0] ]
    /\ last = [frame |-> NewCall("None", 0, "None"), result |-> "None"]

BotNext ==
    \/ CallGiveSubscription
    \/ Webhook
    \/ GiveGet
    \/ GiveCommit
    \/ WebhookNotify
    \/ CallRevokeSubscription
    \/ RevokeGet
    \/ RevokeCommit
    \/ CallDecrementAnalyses
    \/ AnalysesGet
    \/ AnalysesCommit
    \/ HandleAllText
    \/ TextGetUser
    \/ TextAnswer
    \/ MessagesGet
    \/ MessagesCommit
    \/ StartAnalysis
    \/ AnalysisGetUser
    \/ AnalysisCheck
    \/ run_analysis
    \/ CallConfirmPayouts
    \/ ConfirmSelect
    \/ ConfirmCommit

BotSpec == BotInit /\ [][BotNext]_vars

(***************************************************************************)
(* Claims about the payment webhook.                                       *)
(***************************************************************************)
\* the request that ended last is a payment.succeeded notification of a user
PaymentOf(user_id) ==
    /\ last.frame.fn = "yookassa_webhook_handler"
    /\ last.frame.user_id = user_id

\* C21: every payment.succeeded notification with a numeric user id is
\* answered with HTTP 200 (after the grant of a 'purchased' subscription to
\* that user)
C21_PaymentAnswered200 ==
    \A user_id \in UserIds : PaymentOf(user_id) => last.result = 200

(***************************************************************************)
(* split_long_message (src/core/utils.py).  A text is a sequence of        *)
(* characters; positions count from 0 as in Python.  The limit is scaled: *)
(* TELEGRAM_MAX_MESSAGE_LENGTH characters of the model stand for the 4096 *)
(* of the source.  `split` is the frame of one call.                       *)
(***************************************************************************)
TELEGRAM_MAX_MESSAGE_LENGTH == 3

\* the longest text split
MaxText == 6

\* iterations of the loop that the model follows
MaxParts == 4

Characters == {"a", " ", "\n", "*", "_"}

Texts == UNION {[1..n -> Characters] : n \in 0..MaxText}

\* text[a:b]
Slice(text, a, b) == SubSeq(text, a + 1, b)

\* text.rfind(sub, start, end)
rfind(text, sub, start, end) ==
    LET Highest(found) ==
            IF found = {} THEN -1
            ELSE CHOOSE i \in found : \A j \in found : j <= i
    IN  Highest({i \in start..(end - Len(sub)) :
                    Slice(text, i, i + Len(sub)) = sub})

\* chunk.count(char)
count(chunk, char) == Cardinality({i \in 1..Len(chunk) : chunk[i] = char})

Whitespace == {" ", "\n"}

\* p.strip()
RECURSIVE strip(_)
strip(p) ==
    IF p = <<>> THEN p
    ELSE IF Head(p) \in Whitespace THEN strip(Tail(p))
    ELSE IF p[Len(p)] \in Whitespace THEN strip(SubSeq(p, 1, Len(p) - 1))
    ELSE p

\* the split position the backwards search chooses: a paragraph break, else a
\* line break, else a space, else the hard split at end_pos
SearchBack(text, current_pos, end_pos) ==
    LET Or(split_pos, otherwise) == IF split_pos = -1 THEN otherwise ELSE split_pos
    IN  Or(rfind(text, <<"\n", "\n">>, current_pos, end_pos),
           Or(rfind(text, <<"\n">>, current_pos, end_pos),
              Or(rfind(text, <<" ">>, current_pos, end_pos), end_pos)))

\* the split moved before the last '*', '_' or backquote, whichever is the
\* first that the chunk holds an odd number of times
BeforeUnclosed(text, current_pos, split_pos) ==
    LET Moved(chunk) ==
            IF count(chunk, "*") % 2 # 0
            THEN current_pos + rfind(chunk, <<"*">>, 0, Len(chunk))
            ELSE IF count(chunk, "_") % 2 # 0
            THEN current_pos + rfind(chunk, <<"_">>, 0, Len(chunk))
            ELSE IF count(chunk, "backquote") % 2 # 0
            THEN current_pos + rfind(chunk, <<"backquote">>, 0, Len(chunk))
            ELSE split_pos
    IN  Moved(Slice(text, current_pos, split_pos))

SplitPos(text, current_pos) ==
    BeforeUnclosed(text, current_pos,
        SearchBack(text, current_pos, current_pos + TELEGRAM_MAX_MESSAGE_LENGTH))

\* `[p.strip() for p in parts if p.strip()]`
Stripped(parts) ==
    LET NonEmpty(p) == strip(p) # <<>>
    IN  [i \in 1..Len(SelectSeq(parts, NonEmpty)) |->
            strip(SelectSeq(parts, NonEmpty)[i])]

\* a call: a short text is returned as it is, a long one enters the loop
CallSplitLongMessage ==
    /\ split.pc = "idle"
    /\ \E text \in Texts :
        split' = IF Len(text) <= TELEGRAM_MAX_MESSAGE_LENGTH
                 THEN [pc |-> "done", text |-> text, current_pos |-> 0,
                       parts |-> <<text>>]
                 ELSE [pc |-> "while", text |-> text, current_pos |-> 0,
                       parts |-> <<>>]
    /\ UNCHANGED <<enginevars, users, calls, tally, last, worker>>

\* one iteration of `while current_pos < len(text)`
SplitIteration ==
    /\ split.pc = "while"
    /\ split.current_pos < Len(split.text)
    /\ Len(split.parts) < MaxParts
    /\ split' =
        IF split.current_pos + TELEGRAM_MAX_MESSAGE_LENGTH >= Len(split.text)
        THEN [split EXCEPT
                 !.parts = Append(@, Slice(split.text, split.current_pos,
                                           Len(split.text))),
                 !.pc = "return"]
        ELSE [split EXCEPT
                 !.parts = Append(@, Slice(split.text, split.current_pos,
                                           SplitPos(split.text, split.current_pos))),
                 !.current_pos = SplitPos(split.text, split.current_pos)]
    /\ UNCHANGED <<enginevars, users, calls, tally, last, worker>>

\* the loop has ended: the parts are stripped and the empty ones dropped
SplitReturn ==
    /\ \/ split.pc = "return"
       \/ split.pc = "while" /\ split.current_pos >= Len(split.text)
    /\ split' = [split EXCEPT !.pc = "done", !.parts = Stripped(@)]
    /\ UNCHANGED <<enginevars, users, calls, tally, last, worker>>

\* the caller has sent the parts
SplitDone ==
    /\ split.pc = "done"
    /\ split' = [pc |-> "idle", text |-> <<>>, current_pos |-> 0, parts |-> <<>>]
    /\ UNCHANGED <<enginevars, users, calls, tally, last, worker>>

SplitInit ==
    /\ EngineIdle
    /\ BotIdle
    /\ worker = NoItems
    /\ split = [pc |-> "idle", text |-> <<>>, current_pos |-> 0, parts |-> <<>>]

SplitNext ==
    \/ CallSplitLongMessage
    \/ SplitIteration
    \/ SplitReturn
    \/ SplitDone

SplitSpec == SplitInit /\ [][SplitNext]_vars

(***************************************************************************)
(* Claims about split_long_message.                                        *)
(***************************************************************************)
\* C22: every iteration of the splitting loop that does not leave the loop
\* strictly advances current_pos (so the loop terminates)
C22_LoopAdvances ==
    [][split.pc = "while" /\ split'.pc = "while"
        => split'.current_pos > split.current_pos]_vars

\* C23: every chunk returned is non-empty and at most
\* TELEGRAM_MAX_MESSAGE_LENGTH long, and a text within the limit is returned as
\* the single unchanged chunk
C23_ChunksBounded ==
    split.pc = "done" =>
        /\ \A i \in DOMAIN split.parts :
               /\ Len(split.parts[i]) > 0
               /\ Len(split.parts[i]) <= TELEGRAM_MAX_MESSAGE_LENGTH
        /\ Len(split.text) <= TELEGRAM_MAX_MESSAGE_LENGTH
               => split.parts = <<split.text>>

(***************************************************************************)
(* Claims about the quotas and the referral flag.  tally.messages and      *)
(* tally.analyses count the credits granted to a user: those left of the   *)
(* earlier purchase at the start, and those of every grant since.           *)
(***************************************************************************)
\* C24: the AI answers delivered to a user never exceed the message credits
\* granted to that user, however the user's messages interleave
C24_AnswersWithinCredits ==
    \A u \in UserIds : tally.answers[u] <= tally.messages[u]

\* C25: the reports delivered to a user never exceed the analyses granted to
\* that user (every delivered report costs one analysis)
C25_ReportsWithinAnalyses ==
    \A u \in UserIds : tally.reports[u] <= tally.analyses[u]

\* C26: referral_payout_pending becomes True only in the commit of the user's
\* first payment: never again after a reset, never by a 'granted' subscription
C26_PendingOnlyOnFirstPayment ==
    [][\A u \in DOMAIN users :
          ~users[u].referral_payout_pending /\ users'[u].referral_payout_pending
              => tally.paid[u] = 0 /\ tally'.paid[u] = 1]_vars

(***************************************************************************)
(* Claims about the metrics of the report.                                 *)
(***************************************************************************)
ReportLandmarksOf(front_data) == DictGet(front_data, "landmark", EmptyDict).val

\* C27: for every non-empty front landmark set calculate_facial_metrics
\* returns a metrics record without raising, and the record has no eye_whr
\* when the average eye height is 0 and no fwh_ratio when the face height is 0
C27_NoDivisionByZero ==
    op = "calculate_facial_metrics" /\ Truthy(ReportLandmarksOf(args.front_data)) =>
        /\ ~Raised(ret)
        /\ EyeHeight2(ReportLandmarksOf(args.front_data)) = 0
               => "eye_whr" \notin DOMAIN ret.val.d
        /\ FaceHeight(ReportLandmarksOf(args.front_data)) = 0
               => "fwh_ratio" \notin DOMAIN ret.val.d

(***************************************************************************)
(* The analysis worker (src/worker.py).  The bot stores a session PENDING  *)
(* and enqueues its id; the worker takes one id at a time and runs         *)
(* process_session on it.  `worker` holds the sessions table (with the     *)
(* task of each session), the queue and the frame of process_session.      *)
(* The calls that leave the process (downloads, Face++, AILab, DeepSeek)   *)
(* and the template generator may raise; database commits succeed.         *)
(***************************************************************************)
MaxSessions == 3

\* models.Session with its Task: no task yet, no result
NewSession ==
    [ status |-> "pending", result_json |-> FALSE,
      task |-> "None", error_message |-> "" ]

Session == worker.sessions[worker.session_id]

SetSession(session, pc) ==
    worker' = [worker EXCEPT !.sessions[worker.session_id] = session, !.pc = pc]

botvars == <<users, calls, tally, last>>

\* bot.py: the session is stored and its id enqueued
CreateSession ==
    /\ Len(worker.sessions) < MaxSessions
    /\ worker' = [worker EXCEPT
                     !.sessions = Append(@, NewSession),
                     !.queue = Append(@, Len(worker.sessions) + 1)]
    /\ UNCHANGED <<enginevars, botvars, split>>

\* AnalysisWorker.run: the next id of the queue
Dequeue ==
    /\ worker.pc = "idle"
    /\ worker.queue # <<>>
    /\ worker' = [worker EXCEPT !.session_id = Head(worker.queue),
                                !.queue = Tail(@),
                                !.error = "",
                                !.pc = "session"]
    /\ UNCHANGED <<enginevars, botvars, split>>

\* process_session: `session.status = SessionStatus.PROCESSING` and the commit
SessionProcessing ==
    /\ worker.pc = "session"
    /\ SetSession([Session EXCEPT !.status = "processing"], "task")
    /\ UNCHANGED <<enginevars, botvars, split>>

\* process_session: the task record is created PROCESSING and committed
TaskProcessing ==
    /\ worker.pc = "task"
    /\ SetSession([Session EXCEPT !.task = "processing"], "analyze")
    /\ UNCHANGED <<enginevars, botvars, split>>

\* process_session: the downloads and the two analyses, any of which may raise
Analyze ==
    /\ worker.pc = "analyze"
    /\ \E raised \in {"", "download", "Face++", "AILab"} :
        worker' = [worker EXCEPT !.error = raised,
                                 !.pc = IF raised = "" THEN "metrics" ELSE "except"]
    /\ UNCHANGED <<enginevars, botvars, split>>

\* process_session: extract_all_metrics, then the geometric metrics inside
\* their own try: a failure is logged only
Metrics ==
    /\ worker.pc = "metrics"
    /\ \E geo_err \in BOOLEAN : worker' = [worker EXCEPT !.pc = "report"]
    /\ UNCHANGED <<enginevars, botvars, split>>

\* process_session: the DeepSeek report inside a try; its except clause calls
\* the template generator, outside any inner try
Report ==
    /\ worker.pc = "report"
    /\ \E deepseek_err \in BOOLEAN, template_err \in BOOLEAN :
        worker' = IF deepseek_err /\ template_err
                  THEN [worker EXCEPT !.error = "report", !.pc = "except"]
                  ELSE [worker EXCEPT !.pc = "save"]
    /\ UNCHANGED <<enginevars, botvars, split>>

\* process_session: result_json, both statuses DONE, one commit
Save ==
    /\ worker.pc = "save"
    /\ SetSession([Session EXCEPT !.result_json = TRUE, !.status = "done",
                                  !.task = "done"], "idle")
    /\ UNCHANGED <<enginevars, botvars, split>>

\* the except clause: `session.status = SessionStatus.FAILED` and the commit
ExceptSession ==
    /\ worker.pc = "except"
    /\ SetSession([Session EXCEPT !.status = "failed"], "except_task")
    /\ UNCHANGED <<enginevars, botvars, split>>

\* the except clause: the task FAILED with str(e), and the commit
ExceptTask ==
    /\ worker.pc = "except_task"
    /\ SetSession([Session EXCEPT !.task = "failed",
                                  !.error_message = worker.error], "idle")
    /\ UNCHANGED <<enginevars, botvars, split>>

WorkerInit ==
    /\ EngineIdle
    /\ BotIdle
    /\ split = NoItems
    /\ worker = [ sessions |-> <<>>, queue |-> <<>>, session_id |-> 0,
                  error |-> "", pc |-> "idle" ]

WorkerNext ==
    \/ CreateSession
    \/ Dequeue
    \/ SessionProcessing
    \/ TaskProcessing
    \/ Analyze
    \/ Metrics
    \/ Report
    \/ Save
    \/ ExceptSession
    \/ ExceptTask

WorkerSpec == WorkerInit /\ [][WorkerNext]_vars

(***************************************************************************)
(* Claims about the worker.                                                *)
(***************************************************************************)
\* process_session has returned for this session
Processed(id) ==
    /\ id \notin {worker.queue[i] : i \in DOMAIN worker.queue}
    /\ worker.pc = "idle" \/ worker.session_id # id

\* C28: a processed session is DONE or FAILED, never PROCESSING; DONE goes
\* exactly with a stored result and a DONE task, FAILED with a FAILED task
\* that carries the error, and the failing step is never the report generator
C28_SessionLifecycle ==
    \A id \in DOMAIN worker.sessions :
        /\ Processed(id) => worker.sessions[id].status \in {"done", "failed"}
        /\ worker.sessions[id].status = "done"
               <=> worker.sessions[id].result_json /\ worker.sessions[id].task = "done"
        /\ Processed(id) /\ worker.sessions[id].status = "failed"
               => /\ worker.sessions[id].task = "failed"
                  /\ worker.sessions[id].error_message \in {"download", "Face++", "AILab"}

(***************************************************************************)
(* Claims about the record of extract_all_metrics.                         *)
(***************************************************************************)
\* C29: extract_all_metrics never raises, and the category of every record
\* it returns, the default record of the except clause included, is the tier
\* that the thresholds assign to the record's composite_rating
C29_CategoryOfComposite ==
    op = "extract_all_metrics" =>
        /\ ~Raised(ret)
        /\ IsDict(ret.val)
        /\ {"composite_rating", "category"} \subseteq DOMAIN ret.val.d
        /\ TierIndex(ret.val.d["category"].s) = TierOf(ret.val.d["composite_rating"].v)

\* the beauty block raised and the default record was returned
C29_Witness ==
    /\ op = "extract_all_metrics"
    /\ Raised(BeautyMetrics(args.beauty))
    /\ ret.val.d["composite_rating"] = Num(500000)
    /\ ret.val.d["category"] = Str("HTN")

(***************************************************************************)
(* Claims about the counters of the users table.                           *)
(***************************************************************************)
\* this step is the return of a call of fn
Returns(fn) ==
    /\ BagCardinality(calls') < BagCardinality(calls)
    /\ last'.frame.fn = fn

\* the row the returning call had loaded has nothing left of this counter
NothingLeft(counter) ==
    ~last'.frame.found \/ last'.frame.user[counter] = 0

\* C30: under every interleaving of grants, decrements and revocations the
\* counters of every user are >= 0; a decrement that finds the counter at 0
\* writes nothing (decrement_user_analyses then returns False, and True after
\* a write), and revoke_subscription returns False and writes nothing exactly
\* for a user who does not exist or has no expiry date
C30_CountersNeverNegative ==
    /\ [](\A u \in DOMAIN users :
              users[u].analyses_left >= 0 /\ users[u].messages_left >= 0)
    /\ [][/\ Returns("decrement_user_analyses") =>
                /\ last'.result = ~NothingLeft("analyses_left")
                /\ NothingLeft("analyses_left") => users' = users
          /\ Returns("handle_all_text") /\ last'.result = "answered"
                /\ NothingLeft("messages_left") => users' = users
          /\ Returns("revoke_subscription") =>
                /\ last'.result =
                       (last'.frame.found /\ last'.frame.user.is_active_until # "None")
                /\ ~last'.result => users' = users]_vars

\* a decrement of the analyses found the counter at 0 for a user who had
\* been granted analyses: they had been used or revoked before it loaded the row
C30_Witness ==
    /\ last.frame.fn = "decrement_user_analyses"
    /\ last.frame.found
    /\ last.frame.user.analyses_left = 0
    /\ last.result = FALSE
    /\ tally.analyses[last.frame.user_id] > 0

====
